---- MODULE Spec2Model ----
(***************************************************************************)
(* Model of the continuity engine of ME-6104-Project:                      *)
(*   continuity.py  - the Continuity value and its ordering                *)
(*   bezier.py      - BezierCurveContinuity / BezierSurfaceContinuity      *)
(*   hermite.py     - HermiteCurveContinuity / HermiteSurfaceContinuity    *)
(*   bspline.py     - continuity_of_curves / continuity_of_surfaces        *)
(*   geometry.py    - the per-class continuity() wrappers                  *)
(*   main.py        - MainWindow.calculate_continuity and the selection    *)
(***************************************************************************)
EXTENDS Integers, Sequences, FiniteSets, TLC

VARIABLES
    lhs,                \* ordering: the left operand (a Continuity object)
    rhs,                \* ordering: the right operand (a Continuity object)
    raised,             \* ordering: exception raised by the last constructor call
    cmp,                \* ordering: results of the comparison operators on (lhs, rhs)
    family,             \* classifier: the geometry class whose continuity() is called
    cp_1,               \* classifier: control points of the first geometry
    cp_2,               \* classifier: control points of the second geometry
    result,             \* classifier: what the family's classifier function returned
    cont,               \* classifier: what <class>.continuity(cp_1, cp_2) returned
    geometries,         \* window: MainWindow.geometries
    selected_geometry,  \* window: MainWindow.selected_geometry
    instances,          \* window: the instances counter of each geometry class
    summary,            \* window: what the last calculate_continuity call returned
    window,             \* window: the geometries' shapes and orders, the selection and the fields
    arrays,             \* evaluation: the numpy arrays alive, caller's first
    call,               \* evaluation: the call made and the arrays it was given
    nodes               \* evaluation: the nodes the evaluator returned

ordVars == <<lhs, rhs, raised, cmp>>
clsVars == <<family, cp_1, cp_2, result, cont>>
guiVars == <<geometries, selected_geometry, instances, summary, window>>
evalVars == <<arrays, call, nodes>>
vars == <<ordVars, clsVars, guiVars, evalVars>>

----------------------------------------------------------------------------
(* Bounds *)

\* Highest continuity order handed to the constructor.
MaxOrder == 2

----------------------------------------------------------------------------
(* continuity.py *)

\* Python's None for the type field.
None == "None"

\* Python's None for the order field (an integer outside every real order).
NoOrder == 0 - 1

\* Continuity.__init__: the two assertions, which only run when both
\* arguments are given.
InitAsserts(type, order) ==
    (type # None /\ order # NoOrder) =>
        /\ type \in {"C", "G", "CG"}
        /\ ~(order > 0 /\ type = "CG")

\* Continuity.__init__: the object built when the assertions pass.
Continuity(type, order) == [type |-> type, order |-> order]

\* Continuity.__bool__
Bool(c) == c.type # None /\ c.order # NoOrder

\* Mutant of Eq: the "C0 and G0 are equivalent" branch is missing.
EqWithoutOrderZeroRule(self, continuity) ==
    IF self.type # None /\ self.order # NoOrder
       /\ continuity.type # None /\ continuity.order # NoOrder
    THEN self.order = continuity.order /\ self.type = continuity.type
    ELSE FALSE

\* Continuity.__eq__
Eq(self, continuity) ==
    IF Bool(self) /\ Bool(continuity)
    THEN IF self.order = 0 /\ continuity.order = 0
         THEN TRUE
         ELSE self.order = continuity.order /\ self.type = continuity.type
    ELSE FALSE

\* self != continuity: Python derives __ne__ by inverting __eq__.
Ne(self, continuity) == ~Eq(self, continuity)

\* Mutant of Lt: the kinds of the tie-break are swapped (C below G).
LtKindsSwapped(self, continuity) ==
    IF Bool(self) /\ Bool(continuity)
    THEN /\ \/ self.order < continuity.order
            \/ (self.type = "C" /\ continuity.type = "G")
         /\ Ne(self, continuity)
    ELSE FALSE

\* Mutant of Lt: a non-existent left operand is below every existing one.
LtNoneLowest(self, continuity) ==
    IF Bool(self) /\ Bool(continuity)
    THEN /\ \/ self.order < continuity.order
            \/ (self.type = "G" /\ continuity.type = "C")
         /\ Ne(self, continuity)
    ELSE ~Bool(self) /\ Bool(continuity)

\* Continuity.__lt__
Lt(self, continuity) ==
    IF Bool(self) /\ Bool(continuity)
    THEN /\ \/ self.order < continuity.order
            \/ (self.type = "G" /\ continuity.type = "C")
         /\ Ne(self, continuity)
    ELSE FALSE

\* Continuity.__le__
Le(self, continuity) == Lt(self, continuity) \/ Eq(self, continuity)

\* a > b: Continuity defines no __gt__, so Python evaluates the reflected
\* b.__lt__(a).
Gt(self, continuity) == Lt(continuity, self)

\* a >= b: reflected b.__le__(a).
Ge(self, continuity) == Le(continuity, self)

----------------------------------------------------------------------------
(* What a classifier function returns, and the continuity() wrappers *)

\* return (type, order)
Tuple(type, order) == [kind |-> "tuple", type |-> type, order |-> order]

\* return None
NoneResult == [kind |-> "None", type |-> None, order |-> NoOrder]

\* The call ends by raising the exception e instead of returning.
Raise(e) == [kind |-> e, type |-> None, order |-> NoOrder]

\* No classifier was called yet.
NotCalled == [kind |-> "not called", type |-> None, order |-> NoOrder]

\* No continuity() wrapper has returned yet.
NotReturned == [raised |-> "not called", value |-> Continuity(None, NoOrder)]

\* <class>.continuity: Continuity(*continuity) if continuity is not None
\* else Continuity(); an exception of the classifier or of the constructor
\* propagates.
Wrap(continuity) ==
    IF continuity.kind = "None"
    THEN [raised |-> "none", value |-> Continuity(None, NoOrder)]
    ELSE IF continuity.kind = "tuple"
    THEN IF InitAsserts(continuity.type, continuity.order)
         THEN [raised |-> "none",
               value |-> Continuity(continuity.type, continuity.order)]
         ELSE [raised |-> "AssertionError", value |-> Continuity(None, NoOrder)]
    ELSE [raised |-> continuity.kind, value |-> Continuity(None, NoOrder)]

----------------------------------------------------------------------------
(* The variables of each part while another part runs *)

\* No comparison was evaluated yet.
NotCompared ==
    [done |-> FALSE, lt |-> FALSE, gt |-> FALSE, eq |-> FALSE,
     ne |-> FALSE, le |-> FALSE, ge |-> FALSE]

\* The ordering variables before any Continuity is compared.
OrdIdle ==
    /\ lhs = Continuity(None, NoOrder)
    /\ rhs = Continuity(None, NoOrder)
    /\ raised = "none"
    /\ cmp = NotCompared

\* The classifier variables before any classifier is called.
ClsIdle ==
    /\ family = "none"
    /\ cp_1 = <<>>
    /\ cp_2 = <<>>
    /\ result = NotCalled
    /\ cont = NotReturned

\* The concrete geometry classes.
Classes ==
    {"BezierCurve", "BezierSurface", "HermiteCurve", "HermiteSurface",
     "BSplineCurve", "BSplineSurface"}

\* update_label_selected did not call calculate_continuity: fewer than two
\* geometries are selected and the label is cleared.
NotCalculated == [kind |-> "not called", value |-> Continuity(None, NoOrder)]

\* The window before any geometry is made: the spin boxes hold their
\* minimum and load_fields_with_selected_geometries has disabled them.
\* selected_geometry holds positions in geometries (the objects).
WindowIdle ==
    [geometries |-> <<>>, selected_geometry |-> <<>>,
     field_cp_u |-> 2, field_cp_v |-> 2, field_order |-> 1,
     cp_enabled |-> FALSE, cp_v_enabled |-> FALSE, order_visible |-> FALSE,
     raised |-> "none"]

\* The window after MainWindow.__init__, with no geometry made.
GuiIdle ==
    /\ geometries = <<>>
    /\ selected_geometry = <<>>
    /\ instances = [c \in Classes |-> 0]
    /\ summary = NotCalculated
    /\ window = WindowIdle

\* The evaluation variables before any evaluator is called.
EvalIdle ==
    /\ arrays = <<>>
    /\ call = [fn |-> "none", args |-> <<>>, number_u |-> 0, number_v |-> 0,
               k |-> 0, before |-> <<>>, passed |-> <<>>, knots |-> <<>>,
               u |-> <<>>, basis |-> <<>>]
    /\ nodes = [kind |-> "not called", value |-> <<>>]

----------------------------------------------------------------------------
(* numpy arithmetic on integer-valued float arrays *)

\* The coordinate axis of every control-point array: x, y, z.
Axes == 1..3

\* Elementwise y - x on two arrays of one length.
VSub(y, x) == [i \in DOMAIN x |-> y[i] - x[i]]

Sign(a) == IF a > 0 THEN 1 ELSE IF a < 0 THEN 0 - 1 ELSE 0

\* The float a / b: nan for 0/0, a signed infinity for a/0, else the
\* quotient, kept as numerator and denominator.
Quot(a, b) ==
    IF b = 0
    THEN IF a = 0
         THEN [k |-> "nan", n |-> 0, d |-> 1]
         ELSE [k |-> "inf", n |-> Sign(a), d |-> 1]
    ELSE [k |-> "fin", n |-> a, d |-> b]

\* The float comparison q == r: nan equals nothing, an infinity equals the
\* infinity of the same sign, two quotients are equal when their values are.
FloatEq(q, r) ==
    IF q.k = "nan" \/ r.k = "nan" THEN FALSE
    ELSE IF q.k = "inf" \/ r.k = "inf"
    THEN q.k = r.k /\ q.n = r.n
    ELSE q.n * r.d = r.n * q.d

\* Elementwise u / v.
VDiv(u, v) == [i \in DOMAIN u |-> Quot(u[i], v[i])]

\* Mutant of DropNan: the nan entries stay in the array.
DropNanKeepsAll(div) == div

\* div[~np.isnan(div)]
DropNan(div) == SelectSeq(div, LAMBDA q : q.k # "nan")

\* (div == div[0]).all(), for a non-empty div.
AllEqualFirst(div) == \A i \in 1..Len(div) : FloatEq(div[i], div[1])

----------------------------------------------------------------------------
(* bezier.py: BezierCurveContinuity *)

\* A curve's control points cp[:, :, 0].T: the sequence of its points.
\* The differences of consecutive entries: zip(a[0::], a[1::]) -> y - x.
Diff(a) == [i \in 1..(Len(a) - 1) |-> VSub(a[i + 1], a[i])]

\* Mutant of SharedEndpoint: only "cp1 ends where cp2 starts" is tested.
SharedEndpointOneWay(cp1, cp2) == cp1[Len(cp1)] = cp2[1]

\* cp1[:, cp1.shape[1] - 1, :] == cp2[:, 0, :], for both orders of the curves.
SharedEndpoint(cp1, cp2) ==
    \/ cp1[Len(cp1)] = cp2[1]
    \/ cp2[Len(cp2)] = cp1[1]

\* Mutant of BezierRatioTest: tangents of different direction are graded
\* ('CG', 1).
BezierRatioTestMixedOrderOne(diffcp1, diffcp2) ==
    LET div1 == DropNan(VDiv(diffcp1[Len(diffcp1)], diffcp2[1]))
        div2 == DropNan(VDiv(diffcp2[Len(diffcp2)], diffcp1[1]))
    IN  IF Len(div1) = 0 THEN Raise("IndexError")
        ELSE IF AllEqualFirst(div1) THEN Tuple("G", 1)
        ELSE IF Len(div2) = 0 THEN Raise("IndexError")
        ELSE IF AllEqualFirst(div2) THEN Tuple("G", 1)
        ELSE Tuple("CG", 1)

\* Mutant of BezierRatioTest: only div1 is tested.
BezierRatioTestFirstOnly(diffcp1, diffcp2) ==
    LET div1 == DropNan(VDiv(diffcp1[Len(diffcp1)], diffcp2[1]))
    IN  IF Len(div1) = 0 THEN Raise("IndexError")
        ELSE IF AllEqualFirst(div1) THEN Tuple("G", 1)
        ELSE Tuple("CG", 0)

\* The ratio test of lines 58-70.
BezierRatioTest(diffcp1, diffcp2) ==
    LET div1 == DropNan(VDiv(diffcp1[Len(diffcp1)], diffcp2[1]))
        div2 == DropNan(VDiv(diffcp2[Len(diffcp2)], diffcp1[1]))
    IN  IF Len(div1) = 0 THEN Raise("IndexError")
        ELSE IF AllEqualFirst(div1) THEN Tuple("G", 1)
        ELSE IF Len(div2) = 0 THEN Raise("IndexError")
        ELSE IF AllEqualFirst(div2) THEN Tuple("G", 1)
        ELSE Tuple("CG", 0)

BezierCurveContinuity(cp1, cp2) ==
    LET diffcp1 == Diff(cp1)
        diffcp2 == Diff(cp2)
        diff2cp1 == Diff(diffcp1)
        diff2cp2 == Diff(diffcp2)
    IN  IF SharedEndpoint(cp1, cp2)
        THEN IF \/ diffcp1[Len(diffcp1)] = diffcp2[1]
                \/ diffcp2[Len(diffcp2)] = diffcp1[1]
             THEN \* diff2cp1[len(diff2cp1) - 1] and diff2cp2[0] index an
                  \* empty list when a curve has two control points.
                  IF Len(diff2cp1) = 0 \/ Len(diff2cp2) = 0
                  THEN Raise("IndexError")
                  ELSE IF \/ diff2cp1[Len(diff2cp1)] = diff2cp2[1]
                          \/ diff2cp2[Len(diff2cp2)] = diff2cp1[1]
                  THEN Tuple("C", 2)
                  ELSE Tuple("C", 1)
             ELSE BezierRatioTest(diffcp1, diffcp2)
        ELSE NoneResult

----------------------------------------------------------------------------
(* bezier.py: BezierSurfaceContinuity *)

\* A surface's control points cp[:, u, v]: cp[u][v] is a point, for u in
\* 1..U and v in 1..V (numpy 0..U-1, 0..V-1).
NumU(cp) == Len(cp)
NumV(cp) == Len(cp[1])

Row(cp, u) == cp[u]
Column(cp, v) == [u \in 1..NumU(cp) |-> cp[u][v]]

\* An edge as the code stores it in p1sides[k]: one row of values per axis.
SideArray(pts) == [c \in Axes |-> [k \in 1..Len(pts) |-> pts[k][c]]]

\* What filling p1sides raises, if anything: row 0 (V values) must fit a
\* slot of len(cp[0]) = U values; index len(cp) - 1 = 2 must exist in both
\* directions.
BezierSidesError(cp) ==
    IF NumV(cp) # NumU(cp) /\ NumV(cp) # 1 THEN "ValueError"
    ELSE IF NumU(cp) < 3 \/ NumV(cp) < 3 THEN "IndexError"
    ELSE "none"

\* p1sides: cp[i][0], cp[i].T[0], cp[i][len(cp) - 1], cp[i].T[len(cp) - 1],
\* where len(cp) is the number of axes, 3.
BezierSides(cp) ==
    << SideArray(Row(cp, 1)), SideArray(Column(cp, 1)),
       SideArray(Row(cp, 3)), SideArray(Column(cp, 3)) >>

\* Lines 92-130, for the pair of edges found equal on line 91.
BezierEdgeGrade(cp1, cp2) ==
    LET diffcp1 == Diff(cp1)
        diffcp2 == Diff(cp2)
        diff2cp1 == Diff(diffcp1)
        diff2cp2 == Diff(diffcp2)
    IN  IF cp1 = cp2
        THEN IF \A i \in 1..Len(diffcp1) : diffcp1[i] = diffcp2[i]
             THEN IF \A i \in 1..Len(diff2cp1) : diff2cp1[i] = diff2cp2[i]
                  THEN Tuple("C", 2)
                  ELSE Tuple("C", 1)
             ELSE BezierRatioTest(diffcp1, diffcp2)
        ELSE Tuple("CG", 0)

\* The pairs (i, j) in the order of the two nested loops.
SidePairs == [n \in 1..16 |-> <<((n - 1) \div 4) + 1, ((n - 1) % 4) + 1>>]

BezierSurfaceContinuity(cp1, cp2) ==
    IF BezierSidesError(cp1) # "none" THEN Raise(BezierSidesError(cp1))
    ELSE IF BezierSidesError(cp2) # "none" THEN Raise(BezierSidesError(cp2))
    ELSE IF NumU(cp1) # NumU(cp2)
    \* p1sides[i] == p2sides[j] on arrays of different shapes raises.
    THEN Raise("ValueError")
    ELSE LET p1sides == BezierSides(cp1)
             p2sides == BezierSides(cp2)
             hits == {n \in 1..16 :
                         p1sides[SidePairs[n][1]] = p2sides[SidePairs[n][2]]}
         IN  IF hits = {} THEN NoneResult
             ELSE LET n == CHOOSE h \in hits : \A g \in hits : h <= g
                  IN  BezierEdgeGrade(p1sides[SidePairs[n][1]],
                                      p2sides[SidePairs[n][2]])

----------------------------------------------------------------------------
(* bspline.py: continuity_of_curves, continuity_of_surfaces *)

RECURSIVE SumSquares(_)
SumSquares(t) ==
    IF t = <<>> THEN 0 ELSE Head(t) * Head(t) + SumSquares(Tail(t))

RECURSIVE DotN(_, _)
DotN(u, v) ==
    IF u = <<>> THEN 0 ELSE Head(u) * Head(v) + DotN(Tail(u), Tail(v))

\* a = b * 2^m for some m >= 0 (a, b positive).
RECURSIVE PowerOfTwoMultiple(_, _)
PowerOfTwoMultiple(a, b) ==
    IF a = b THEN TRUE
    ELSE IF a < b THEN FALSE
    ELSE PowerOfTwoMultiple(a, 2 * b)

IsSquare(n) == \E r \in 0..n : r * r = n

\* np.all(t1 / np.linalg.norm(t1) == t2 / np.linalg.norm(t2)) on two flat
\* arrays of one length.  A zero array divides 0 by 0: nan, never equal.
\* Arrays that do not point the same way differ in some element.  For
\* arrays that do, the two sides are the same real numbers, and equal as
\* floats when the norms are exact (a perfect square under the root) or
\* the scale factor is a power of two; otherwise the roundings of the two
\* square roots and divisions decide, and both outcomes are kept.
NormalizedEqual(t1, t2) ==
    IF \/ \E i, j \in DOMAIN t1 : t1[i] * t2[j] # t1[j] * t2[i]
       \/ DotN(t1, t2) <= 0
    THEN {FALSE}
    ELSE IF \/ IsSquare(SumSquares(t1))
            \/ PowerOfTwoMultiple(SumSquares(t1), SumSquares(t2))
            \/ PowerOfTwoMultiple(SumSquares(t2), SumSquares(t1))
    THEN {TRUE}
    ELSE {TRUE, FALSE}

\* Lines 118-126 (curves) and 149-157 (surfaces): the grade of the first
\* coincident pair, from its two tangent arrays.
BSplineGrade(tangent_1, tangent_2) ==
    IF tangent_1 = tangent_2 THEN {Tuple("C", 1)}
    ELSE {IF b THEN Tuple("G", 1) ELSE Tuple("CG", 0) :
              b \in NormalizedEqual(tangent_1, tangent_2)}

\* The pairs of the two nested loops over (first, last) x (first, last).
EndPairs == << <<1, 1>>, <<1, 2>>, <<2, 1>>, <<2, 2>> >>

\* The set of results the call can return (one, unless rounding decides).
continuity_of_curves(cp1, cp2) ==
    LET endpoints_1 == <<cp1[1], cp1[Len(cp1)]>>
        endpoints_2 == <<cp2[1], cp2[Len(cp2)]>>
        tangents_1 == <<VSub(cp1[2], cp1[1]), VSub(cp1[Len(cp1)], cp1[Len(cp1) - 1])>>
        tangents_2 == <<VSub(cp2[2], cp2[1]), VSub(cp2[Len(cp2)], cp2[Len(cp2) - 1])>>
        hits == {n \in 1..4 :
                    endpoints_1[EndPairs[n][1]] = endpoints_2[EndPairs[n][2]]}
    IN  IF hits = {} THEN {NoneResult}
        ELSE LET n == CHOOSE h \in hits : \A g \in hits : h <= g
             IN  BSplineGrade(tangents_1[EndPairs[n][1]],
                              tangents_2[EndPairs[n][2]])

\* A sequence of vectors as one flat array.
RECURSIVE Flat(_)
Flat(t) == IF t = <<>> THEN <<>> ELSE Head(t) \o Flat(Tail(t))

\* edges_1: cp[:, 0, :], cp[:, -1, :], cp[:, :, 0], cp[:, :, -1].
BSplineEdges(cp) ==
    << Row(cp, 1), Row(cp, NumU(cp)), Column(cp, 1), Column(cp, NumV(cp)) >>

\* tangents_1: np.diff of the first two and the last two rows (axis 1),
\* then of the first two and the last two columns (axis 2).
BSplineTangents(cp) ==
    << [v \in 1..NumV(cp) |-> VSub(cp[2][v], cp[1][v])],
       [v \in 1..NumV(cp) |-> VSub(cp[NumU(cp)][v], cp[NumU(cp) - 1][v])],
       [u \in 1..NumU(cp) |-> VSub(cp[u][2], cp[u][1])],
       [u \in 1..NumU(cp) |-> VSub(cp[u][NumV(cp)], cp[u][NumV(cp) - 1])] >>

\* Edge i and edge j run along the same array axis: their tangent arrays
\* have one shape.  Otherwise the shapes (3, 1, V) and (3, U, 1) broadcast.
SameAxis(i, j) == (i <= 2) = (j <= 2)

Uniform(t) == \A k, l \in DOMAIN t : t[k] = t[l]

\* np.all(tangent_1 == tangent_2)
TangentArraysEqual(t1, t2, i, j) ==
    IF SameAxis(i, j) THEN t1 = t2
    ELSE \A k \in DOMAIN t1 : \A l \in DOMAIN t2 : t1[k] = t2[l]

\* The set of results the call can return.  Comparing edges of different
\* lengths is False under older numpy releases and raises ValueError under
\* newer ones; both are kept.
continuity_of_surfaces(cp1, cp2) ==
    LET edges_1 == BSplineEdges(cp1)
        edges_2 == BSplineEdges(cp2)
        tangents_1 == BSplineTangents(cp1)
        tangents_2 == BSplineTangents(cp2)
        E1(n) == edges_1[SidePairs[n][1]]
        E2(n) == edges_2[SidePairs[n][2]]
        hits == {n \in 1..16 : E1(n) = E2(n)}
        first == IF hits = {} THEN 17
                 ELSE CHOOSE h \in hits : \A g \in hits : h <= g
        mismatch == \E n \in 1..16 : n < first /\ Len(E1(n)) # Len(E2(n))
        graded ==
            IF hits = {} THEN {NoneResult}
            ELSE LET i == SidePairs[first][1]
                     j == SidePairs[first][2]
                     t1 == tangents_1[i]
                     t2 == tangents_2[j]
                 IN  IF TangentArraysEqual(t1, t2, i, j) THEN {Tuple("C", 1)}
                     ELSE IF ~SameAxis(i, j) /\ ~(Uniform(t1) /\ Uniform(t2))
                     THEN {Tuple("CG", 0)}
                     ELSE {IF b THEN Tuple("G", 1) ELSE Tuple("CG", 0) :
                               b \in NormalizedEqual(Flat(t1), Flat(t2))}
    IN  graded \cup (IF mismatch THEN {Raise("ValueError")} ELSE {})

----------------------------------------------------------------------------
(* geometry.py: Hermite tangents; hermite.py: the Hermite classifiers *)

\* Hermite.hermite_tangent_scaling
hermite_tangent_scaling == 1

\* (target - corner) * Hermite.hermite_tangent_scaling
Tangent(target, corner) ==
    [i \in Axes |-> (target[i] - corner[i]) * hermite_tangent_scaling]

\* HermiteCurve.calculate_tangents: slots 2-3 become tangent vectors in a
\* copy of the array; slots 0-1 are kept.
HermiteCurve_calculate_tangents(cp) ==
    [k \in 1..4 |-> IF k <= 2 THEN cp[k] ELSE Tangent(cp[k], cp[k - 2])]

\* HermiteSurface.calculate_tangents: the three non-corner 2x2 blocks
\* become tangent and twist vectors in a copy of the array.
HermiteSurface_calculate_tangents(cp) ==
    [a \in 1..4 |-> [b \in 1..4 |->
        IF a <= 2 /\ b <= 2 THEN cp[a][b]
        ELSE Tangent(cp[a][b],
                     cp[IF a > 2 THEN a - 2 ELSE a][IF b > 2 THEN b - 2 ELSE b])]]

\* The matrix M of HermiteCurveContinuity.
HermiteM ==
    << <<0, 0, 0, 0>>, <<0, 0, 0, 0>>, <<12, 0 - 12, 6, 6>>, <<0 - 6, 6, 0 - 4, 0 - 2>> >>

\* np.dot(np.dot(row, M), p[:, :, 0].transpose()): one value per axis.
SecondDerivative(row, p) ==
    LET rowM == [j \in 1..4 |->
                    row[1] * HermiteM[1][j] + row[2] * HermiteM[2][j]
                  + row[3] * HermiteM[3][j] + row[4] * HermiteM[4][j]]
    IN  [i \in Axes |->
            rowM[1] * p[1][i] + rowM[2] * p[2][i]
          + rowM[3] * p[3][i] + rowM[4] * p[4][i]]

\* 0 in p[:, k, :]
HasZero(v) == \E i \in DOMAIN v : v[i] = 0

\* (u / v == (u / v)[0]).all(): no nan is dropped here.
RatioConstant(u, v) == AllEqualFirst(VDiv(u, v))

\* p1 and p2 are the arrays with tangents already calculated; numpy slots
\* 0..3 are the entries 1..4.
HermiteCurveContinuity(p1, p2) ==
    LET p1u0 == SecondDerivative(<<0, 0, 0, 1>>, p1)
        p1u1 == SecondDerivative(<<1, 1, 1, 1>>, p1)
        p2u0 == SecondDerivative(<<0, 0, 0, 1>>, p2)
        p2u1 == SecondDerivative(<<1, 1, 1, 1>>, p2)
    IN  IF p1[2] = p2[1] \/ p2[2] = p1[1]
        THEN IF p1[4] = p2[3] \/ p2[4] = p1[3]
             THEN IF p1u1 = p2u0 \/ p1u0 = p2u1
                  THEN Tuple("C", 2)
                  ELSE Tuple("C", 1)
             ELSE IF HasZero(p1[3]) \/ HasZero(p1[4])
             THEN Tuple("CG", 0)
             ELSE IF RatioConstant(p1[4], p2[3]) \/ RatioConstant(p2[4], p1[3])
             THEN Tuple("G", 1)
             ELSE Tuple("CG", 0)
        ELSE NoneResult

\* The four edges p1sides[0..3] of a Hermite array: four slots each.
HermiteSides(p) ==
    << <<p[1][1], p[1][2], p[3][1], p[3][2]>>,
       <<p[1][1], p[2][1], p[1][3], p[2][3]>>,
       <<p[2][1], p[2][2], p[4][1], p[4][2]>>,
       <<p[1][2], p[2][2], p[1][4], p[2][4]>> >>

\* Mutant of HermiteSurfaceContinuity: an edge is compared only with the
\* edge of the same number.
HermiteSurfaceContinuitySameSide(p1, p2) ==
    LET p1sides == HermiteSides(p1)
        p2sides == HermiteSides(p2)
    IN  IF \E i \in 1..4 : p1sides[i] = p2sides[i]
        THEN Tuple("CG", 0)
        ELSE NoneResult

HermiteSurfaceContinuity(p1, p2) ==
    LET p1sides == HermiteSides(p1)
        p2sides == HermiteSides(p2)
    IN  IF \E i \in 1..4 : \E j \in 1..4 : p1sides[i] = p2sides[j]
        THEN Tuple("CG", 0)
        ELSE NoneResult

----------------------------------------------------------------------------
(* Exact arithmetic for the evaluators: values as reduced fractions *)

RECURSIVE GCD(_, _)
GCD(a, b) == IF b = 0 THEN a ELSE GCD(b, a % b)

Abs(a) == IF a < 0 THEN 0 - a ELSE a

\* The fraction n/d (d > 0), reduced.
Rat(n, d) ==
    LET g == GCD(Abs(n), d)
    IN  [n |-> n \div g, d |-> d \div g]

RAdd(a, b) == Rat(a.n * b.d + b.n * a.d, a.d * b.d)
RSub(a, b) == Rat(a.n * b.d - b.n * a.d, a.d * b.d)
RMul(a, b) == Rat(a.n * b.n, a.d * b.d)
\* a / m for a whole number m > 0.
RDivInt(a, m) == Rat(a.n, a.d * m)
RLe(a, b) == a.n * b.d <= b.n * a.d
RLt(a, b) == a.n * b.d < b.n * a.d

\* b ** e for a whole number e >= 0; 0 ** 0 is 1.
RECURSIVE RPow(_, _)
RPow(b, e) == IF e = 0 THEN Rat(1, 1) ELSE RMul(b, RPow(b, e - 1))

\* The sum of the fractions f[1..m].
RECURSIVE RSum(_, _)
RSum(f, m) == IF m = 0 THEN Rat(0, 1) ELSE RAdd(RSum(f, m - 1), f[m])

\* np.linspace(0, last, num)[j] for j in 0..num-1 and num >= 2: the end
\* values are exactly 0 and last.
Linspace(last, num, j) == Rat(j * last, num - 1)

\* row @ points: one fraction per axis, for a row of weights and a sequence
\* of points of whole coordinates.
Combine(row, points) ==
    [a \in Axes |->
        RSum([m \in 1..Len(points) |-> RMul(row[m], Rat(points[m][a], 1))],
             Len(points))]

\* The node equals the point p in every coordinate.
NodeIs(node, p) == \A a \in Axes : node[a] = Rat(p[a], 1)

----------------------------------------------------------------------------
(* bezier.py: bernstein_poly, curve *)

RECURSIVE Factorial(_)
Factorial(n) == IF n = 0 THEN 1 ELSE n * Factorial(n - 1)

\* Mutant of bernstein_poly: the two exponents change places.
bernstein_poly_ExponentsSwapped(u, k, n) ==
    RMul(RMul(Rat(Factorial(n) \div (Factorial(k) * Factorial(n - k)), 1),
              RPow(u, n - k)),
         RPow(RSub(Rat(1, 1), u), k))

\* combination(n, k) * (u ** k) * ((1 - u) ** (n - k))
bernstein_poly(u, k, n) ==
    RMul(RMul(Rat(Factorial(n) \div (Factorial(k) * Factorial(n - k)), 1),
              RPow(u, k)),
         RPow(RSub(Rat(1, 1), u), n - k))

\* bezier.curve(cp, num): the nodes 1..num (numpy 0..num-1), for the
\* sequence cp of control points.
curve(cp, num) ==
    LET n == Len(cp) - 1
        M == [j \in 1..num |-> [k \in 1..(n + 1) |->
                 bernstein_poly(Linspace(1, num, j - 1), k - 1, n)]]
    IN  [j \in 1..num |-> Combine(M[j], cp)]

----------------------------------------------------------------------------
(* hermite.py: HermiteCurve *)

\* Mutant of Hermite_m: the 1 of the last row is one column further.
Hermite_m_LastRowShifted ==
    << <<2, 0 - 2, 1, 1>>, <<0 - 3, 3, 0 - 2, 0 - 1>>, <<0, 0, 1, 0>>, <<0, 1, 0, 0>> >>

\* The matrix m of HermiteCurve.
Hermite_m ==
    << <<2, 0 - 2, 1, 1>>, <<0 - 3, 3, 0 - 2, 0 - 1>>, <<0, 0, 1, 0>>, <<1, 0, 0, 0>> >>

\* np.matmul([t ** 3, t ** 2, t, 1], m): the four weights at parameter t.
HermiteWeights(t) ==
    LET powers == <<RPow(t, 3), RPow(t, 2), t, Rat(1, 1)>>
    IN  [c \in 1..4 |->
            RSum([r \in 1..4 |-> RMul(powers[r], Rat(Hermite_m[r][c], 1))], 4)]

\* hermite.HermiteCurve(p, num): the nodes 1..num, for p = <<P0, P1, T0, T1>>.
HermiteCurve(p, num) ==
    [j \in 1..num |-> Combine(HermiteWeights(Linspace(1, num, j - 1)), p)]

----------------------------------------------------------------------------
(* bspline.py: basis, curve *)

\* Mutant of PaddedKnots: the padding at the end is one above the last value.
PaddedKnotsPastTheEnd(size, padding) ==
    [t \in 1..(size + 2 * padding) |->
        IF t <= padding THEN 0
        ELSE IF t > padding + size THEN size
        ELSE t - padding - 1]

\* np.pad(np.arange(size), padding, mode="edge") as a sequence; numpy index
\* t is entry t + 1.
PaddedKnots(size, padding) ==
    [t \in 1..(size + 2 * padding) |->
        IF t <= padding THEN 0
        ELSE IF t > padding + size THEN size - 1
        ELSE t - padding - 1]

\* knots[t] for a numpy index t.
KnotAt(knots, t) == knots[t + 1]

\* Mutant of basis_order_1: the last interval is half-open as the others.
basis_order_1_HalfOpen(u, i, knots) ==
    [p \in DOMAIN i |->
        IF /\ RLe(Rat(KnotAt(knots, i[p]), 1), u)
           /\ RLt(u, Rat(KnotAt(knots, i[p] + 1), 1))
        THEN Rat(1, 1)
        ELSE Rat(0, 1)]

\* The else branch of basis (k = 1): the intervals are half-open except
\* that of the last entry of i, which includes its right end.
basis_order_1(u, i, knots) ==
    [p \in DOMAIN i |->
        IF /\ RLe(Rat(KnotAt(knots, i[p]), 1), u)
           /\ IF p < Len(i)
              THEN RLt(u, Rat(KnotAt(knots, i[p] + 1), 1))
              ELSE RLe(u, Rat(KnotAt(knots, i[p] + 1), 1))
        THEN Rat(1, 1)
        ELSE Rat(0, 1)]

\* basis(u, i, k, knots) for one parameter value u: one value per entry of
\* the index array i (a sequence of numpy indices).
RECURSIVE basis(_, _, _, _)
basis(u, i, k, knots) ==
    IF k > 1
    THEN LET lower == basis(u, i, k - 1, knots)
             upper == basis(u, [p \in DOMAIN i |-> i[p] + 1], k - 1, knots)
             denominator_1 ==
                 [p \in DOMAIN i |-> KnotAt(knots, i[p] + k - 1) - KnotAt(knots, i[p])]
             denominator_2 ==
                 [p \in DOMAIN i |-> KnotAt(knots, i[p] + k) - KnotAt(knots, i[p] + 1)]
             term_1 ==
                 [p \in DOMAIN i |->
                     IF denominator_1[p] = 0 THEN Rat(0, 1)
                     ELSE RDivInt(RMul(RSub(u, Rat(KnotAt(knots, i[p]), 1)), lower[p]),
                                  denominator_1[p])]
             term_2 ==
                 [p \in DOMAIN i |->
                     IF denominator_2[p] = 0 THEN Rat(0, 1)
                     ELSE RDivInt(RMul(RSub(Rat(KnotAt(knots, i[p] + k), 1), u), upper[p]),
                                  denominator_2[p])]
         IN  [p \in DOMAIN i |-> RAdd(term_1[p], term_2[p])]
    ELSE basis_order_1(u, i, knots)

\* The fraction is a float: its denominator is a power of two (numerators
\* and denominators stay far below 2^53).
IsFloat(a) == PowerOfTwoMultiple(a.d, 1)

\* No operation of basis(u, i, k, knots) rounds: every product with a
\* non-zero lower-order value has a float for its parameter and a float
\* for its quotient (the order-1 values are 0.0 and 1.0 whatever u is, and
\* a product with 0.0 is 0.0).
RECURSIVE basis_is_exact(_, _, _, _)
basis_is_exact(u, i, k, knots) ==
    k > 1 =>
        LET next == [p \in DOMAIN i |-> i[p] + 1]
            lower == basis(u, i, k - 1, knots)
            upper == basis(u, next, k - 1, knots)
        IN  /\ basis_is_exact(u, i, k - 1, knots)
            /\ basis_is_exact(u, next, k - 1, knots)
            /\ \A p \in DOMAIN i :
                   LET d1 == KnotAt(knots, i[p] + k - 1) - KnotAt(knots, i[p])
                       d2 == KnotAt(knots, i[p] + k) - KnotAt(knots, i[p] + 1)
                   IN  /\ (d1 # 0 /\ lower[p].n # 0) =>
                              /\ IsFloat(u)
                              /\ IsFloat(RDivInt(RMul(RSub(u, Rat(KnotAt(knots, i[p]), 1)),
                                                      lower[p]), d1))
                       /\ (d2 # 0 /\ upper[p].n # 0) =>
                              /\ IsFloat(u)
                              /\ IsFloat(RDivInt(RMul(RSub(Rat(KnotAt(knots, i[p] + k), 1), u),
                                                      upper[p]), d2))

\* Mutant of RowSumIsOne: the sum is left to the roundings even when no
\* operation rounds.
RowSumIsOneAlwaysRounds(u, i, k, knots) == {TRUE, FALSE}

\* Whether the floats of one row of basis(u, i, k, knots) add up to 1.0:
\* decided by the exact values when no operation rounds, by the roundings
\* otherwise (both outcomes are kept).
RowSumIsOne(u, i, k, knots) ==
    IF basis_is_exact(u, i, k, knots)
    THEN {RSum(basis(u, i, k, knots), Len(i)) = Rat(1, 1)}
    ELSE {TRUE, FALSE}

\* What an evaluator returns: the nodes, or the exception that left it.
Nodes(value) == [kind |-> "nodes", value |-> value]
NoNodes(e) == [kind |-> e, value |-> <<>>]

\* The size of np.arange(x): no entries when x is not positive.
ArangeSize(x) == IF x > 0 THEN x ELSE 0

\* Lines 66-73 (curve) and 85-96 (surface): the knot vector for n segments
\* and order k, or no knots when np.arange gave none (the assertion fails).
Knots(n, k) ==
    LET T == n + k + 1
        padding == k - 1
        size == ArangeSize(T - padding * 2)
    IN  IF ~(size > 0) THEN <<>> ELSE PaddedKnots(size, padding)

\* np.linspace(0, knots[-1], number_u): the parameter samples.
Parameters(knots, number_u) ==
    [j \in 1..number_u |-> Linspace(knots[Len(knots)], number_u, j - 1)]

\* bspline.curve(cp, number_u, k) for the sequence cp of control points.
bspline_curve(cp, number_u, k) ==
    LET n == Len(cp) - 1
        knots == Knots(n, k)
        u == Parameters(knots, number_u)
        i == [p \in 1..(n + 1) |-> p - 1]
    IN  IF knots = <<>> THEN NoNodes("AssertionError")
        ELSE Nodes([j \in 1..number_u |-> Combine(basis(u[j], i, k, knots), cp)])

\* wu @ cp[a] @ wv for every axis a: the weights wu over the first
\* direction of the grid cp and wv over the second.
Bilinear(wu, cp, wv) ==
    [a \in Axes |->
        RSum([r \in 1..Len(cp) |->
                 RMul(wu[r],
                      RSum([c \in 1..Len(cp[r]) |->
                               RMul(Rat(cp[r][c][a], 1), wv[c])],
                           Len(cp[r])))],
             Len(cp))]

\* bezier.surface(cp, num_u, num_v): points[:, i, j] for the grid cp of
\* control points (cp[r][c] is the point at row r, column c).
surface(cp, num_u, num_v) ==
    LET n_u == Len(cp) - 1
        n_v == Len(cp[1]) - 1
        M_u == [i \in 1..num_u |-> [k \in 1..(n_u + 1) |->
                   bernstein_poly(Linspace(1, num_u, i - 1), k - 1, n_u)]]
        M_v == [j \in 1..num_v |-> [k \in 1..(n_v + 1) |->
                   bernstein_poly(Linspace(1, num_v, j - 1), k - 1, n_v)]]
    IN  Nodes([i \in 1..num_u |-> [j \in 1..num_v |->
                  Bilinear(M_u[i], cp, M_v[j])]])

\* bspline.surface(cp, number_u, number_v, k) for the grid cp.
bspline_surface(cp, number_u, number_v, k) ==
    LET m == Len(cp) - 1
        n == Len(cp[1]) - 1
        knots_u == Knots(m, k)
        knots_v == Knots(n, k)
        u == Parameters(knots_u, number_u)
        v == Parameters(knots_v, number_v)
        i == [p \in 1..(m + 1) |-> p - 1]
        j == [p \in 1..(n + 1) |-> p - 1]
    IN  IF 0 \in {Len(knots_u), Len(knots_v)} THEN NoNodes("AssertionError")
        ELSE Nodes([a \in 1..number_u |-> [b \in 1..number_v |->
                 Bilinear(basis(u[a], i, k, knots_u), cp,
                          basis(v[b], j, k, knots_v))]])

----------------------------------------------------------------------------
(* hermite.py: HermiteSurface *)

\* hermite.HermiteSurface(p, num_u, num_v): surface[k][j][i] is written
\* for i < num_u and j < num_v into an array of shape (3, num_u, num_v), so
\* an index leaves the array unless the two counts are equal.  The value
\* is nodes[j][i], the point at parameters (u_i, v_j).
HermiteSurface(p, num_u, num_v) ==
    IF num_u # num_v THEN NoNodes("IndexError")
    ELSE Nodes([j \in 1..num_v |-> [i \in 1..num_u |->
             LET wu == HermiteWeights(Linspace(1, num_u, i - 1))
                 wv == HermiteWeights(Linspace(1, num_v, j - 1))
             IN  [a \in Axes |->
                     RSum([r \in 1..4 |->
                              RMul(wv[r],
                                   RSum([c \in 1..4 |->
                                            RMul(wu[c], Rat(p[c][r][a], 1))],
                                        4))],
                          4)]]])

----------------------------------------------------------------------------
(* numpy arrays as objects: an array is known by its position in arrays *)

\* Mutant of ndarray_copy: the same array is handed back.
ndarray_alias(arrs, ref) == [arrays |-> arrs, ref |-> ref]

\* cp.copy(): a new array with the contents of the array ref.
ndarray_copy(arrs, ref) ==
    [arrays |-> Append(arrs, arrs[ref]), ref |-> Len(arrs) + 1]

\* HermiteCurve.calculate_tangents / HermiteSurface.calculate_tangents on
\* the array ref: the slice assignments write into the local array cp.
calculate_tangents(class, arrs, ref) ==
    LET cp == ndarray_copy(arrs, ref)
    IN  [arrays |->
            [cp.arrays EXCEPT ![cp.ref] =
                IF class = "HermiteCurve"
                THEN HermiteCurve_calculate_tangents(@)
                ELSE HermiteSurface_calculate_tangents(@)],
         ref |-> cp.ref]

----------------------------------------------------------------------------
(* Inputs of the classifiers *)

\* Most control points of a curve.
MaxCP == 3

\* The control points the curves are built from: four collinear points at
\* unequal spacing and one point off their line.
Points ==
    {<<0, 0, 0>>, <<1, 1, 0>>, <<2, 2, 0>>, <<4, 4, 0>>, <<1, 0, 0>>}

\* Control grids of shape (3, U, 1) with U >= 2.
Curves == UNION {[1..n -> Points] : n \in 2..MaxCP}

\* preset_1 (and the example at the end of bezier.py): the three preset
\* Bezier curves, in tenths of a unit so that 7.5 and 8.2 are whole numbers.
\* Both non-zero components of every difference of these curves come from
\* the same two numbers, so their float quotients are equal exactly when
\* the quotients of the whole numbers are.
preset_1 ==
    << << <<30, 100, 0>>, <<40, 70, 0>>, <<60, 60, 0>>, <<75, 75, 0>> >>,
       << <<75, 75, 0>>, <<82, 82, 0>>, <<110, 70, 0>>, <<140, 60, 0>> >>,
       << <<140, 60, 0>>, <<170, 50, 0>>, <<200, 100, 0>>, <<230, 150, 0>> >> >>

\* The Bezier curves the classifier is called with.
BezierCurves == Curves \cup {preset_1[k] : k \in 1..3}

\* Hermite curves: two corners and two displacement targets, with tangents
\* along and off the diagonal and with zero components.
HermitePoints == {<<0, 0, 0>>, <<1, 1, 1>>, <<3, 3, 3>>, <<1, 2, 1>>}
HermiteCurves == [1..4 -> HermitePoints]

\* preset_3 (and the example at the end of hermite.py): the two preset
\* Hermite curves, in units of 1/10000 so that the four-decimal entries
\* are whole numbers.
preset_3 ==
    << << <<10000, 50000, 0>>, <<30000, 80000, 0>>,
          <<30000, 30000, 0>>, <<19286, 0 - 12321, 0>> >>,
       << <<30000, 80000, 0>>, <<60000, 40000, 0>>,
          <<19286, 0 - 12321, 0>>, <<42857, 0 - 10714, 0>> >> >>

\* The Hermite arrays the classifier is called with.
HermiteCurveInputs == HermiteCurves \cup {preset_3[1], preset_3[2]}

\* Rows of surface control points: three parallel lines in the plane z = 0
\* and one row that leaves the plane.
SurfaceRows ==
    { << <<0, 0, 0>>, <<1, 0, 0>>, <<2, 0, 0>> >>,
      << <<0, 1, 0>>, <<1, 1, 0>>, <<2, 1, 0>> >>,
      << <<0, 2, 0>>, <<1, 2, 0>>, <<2, 2, 0>> >>,
      << <<0, 1, 1>>, <<1, 1, 0>>, <<2, 1, 0>> >> }
ShortRows ==
    { << <<0, 0, 0>>, <<1, 0, 0>> >>, << <<0, 1, 0>>, <<1, 1, 0>> >> }

LongRows ==
    { << <<0, 0, 0>>, <<1, 0, 0>>, <<2, 0, 0>>, <<3, 0, 0>> >>,
      << <<0, 1, 0>>, <<1, 1, 0>>, <<2, 1, 0>>, <<3, 1, 0>> >>,
      << <<0, 2, 0>>, <<1, 2, 0>>, <<2, 2, 0>>, <<3, 2, 0>> >> }

\* preset_2 (and the example at the end of bezier.py): two 3 x 3 grids; the
\* last row of the first is the first row of the second.
preset_2 ==
    << << << <<0, 20, 0>>, <<8, 21, 5>>, <<18, 23, 0>> >>,
          << <<0, 17, 0>>, <<8, 17, 6>>, <<18, 17, 3>> >>,
          << <<0, 14, 0>>, <<8, 14, 6>>, <<18, 14, 4>> >> >>,
       << << <<0, 14, 0>>, <<8, 14, 6>>, <<18, 14, 4>> >>,
          << <<0, 11, 0>>, <<8, 11, 6>>, <<18, 11, 5>> >>,
          << <<0, 0, 0>>, <<8, 0, 0>>, <<18, 0, 0>> >> >> >>

\* Control grids of shape (3, 3, 3), (3, 2, 2) and (3, 4, 4), and the two
\* grids of preset_2.
Surfaces ==
    [1..3 -> SurfaceRows] \cup [1..2 -> ShortRows] \cup [1..4 -> LongRows]
        \cup {preset_2[1], preset_2[2]}

\* The layout of preset_4 at origin o and width w: corners, displacement
\* targets of the tangents, displacement targets of the twists.
HermiteGrid(o, w) ==
    << << <<o, 0, 0>>, <<o, w, 0>>, <<o, 1, 0>>, <<o, w + 1, 0>> >>,
       << <<o + w, 0, 0>>, <<o + w, w, 0>>, <<o + w, 1, 0>>, <<o + w, w + 1, 0>> >>,
       << <<o + 1, 0, 0>>, <<o + 1, w, 0>>, <<o, 0, 1>>, <<o, w, 1>> >>,
       << <<o + w + 1, 0, 0>>, <<o + w + 1, w, 0>>, <<o + w, 0, 1>>, <<o + w, w, 1>> >> >>

HermiteSurfaces == {HermiteGrid(o, w) : o \in {0, 2, 4}, w \in {2, 3}}

----------------------------------------------------------------------------
(* Classifier specification: call one class's continuity(cp_1, cp_2) *)

\* The arguments are in place and the call has not been made.
Ready(f, inputs) ==
    /\ OrdIdle
    /\ GuiIdle
    /\ EvalIdle
    /\ family = f
    /\ cp_1 \in inputs
    /\ cp_2 \in inputs
    /\ result = NotCalled
    /\ cont = NotReturned

\* The call returns (or raises) r.
Return(f, r) ==
    /\ family = f
    /\ result = NotCalled
    /\ result' = r
    /\ cont' = Wrap(r)
    /\ UNCHANGED <<family, cp_1, cp_2, ordVars, guiVars, evalVars>>

\* BezierCurve.continuity(cp_1, cp_2)
BezierCurve_continuity ==
    Return("BezierCurve", BezierCurveContinuity(cp_1, cp_2))

\* BezierSurface.continuity(cp_1, cp_2)
BezierSurface_continuity ==
    Return("BezierSurface", BezierSurfaceContinuity(cp_1, cp_2))

\* HermiteCurve.continuity(cp_1, cp_2)
HermiteCurve_continuity ==
    Return("HermiteCurve",
           HermiteCurveContinuity(HermiteCurve_calculate_tangents(cp_1),
                                  HermiteCurve_calculate_tangents(cp_2)))

\* HermiteSurface.continuity(cp_1, cp_2)
HermiteSurface_continuity ==
    Return("HermiteSurface",
           HermiteSurfaceContinuity(HermiteSurface_calculate_tangents(cp_1),
                                    HermiteSurface_calculate_tangents(cp_2)))

\* BSplineCurve.continuity(cp_1, cp_2)
BSplineCurve_continuity ==
    /\ family = "BSplineCurve"
    /\ \E r \in continuity_of_curves(cp_1, cp_2) : Return("BSplineCurve", r)

\* BSplineSurface.continuity(cp_1, cp_2)
BSplineSurface_continuity ==
    /\ family = "BSplineSurface"
    /\ \E r \in continuity_of_surfaces(cp_1, cp_2) : Return("BSplineSurface", r)

BezierCurveInit == Ready("BezierCurve", BezierCurves)

SpecBezierCurve == BezierCurveInit /\ [][BezierCurve_continuity]_vars

\* hermite.HermiteCurveContinuity(cp_1, cp_2) called on the arrays as they
\* are, as the example at the end of hermite.py does: no Continuity is
\* built.
HermiteCurveContinuity_call ==
    /\ family = "HermiteCurveContinuity"
    /\ result = NotCalled
    /\ result' = HermiteCurveContinuity(cp_1, cp_2)
    /\ UNCHANGED <<family, cp_1, cp_2, cont, ordVars, guiVars, evalVars>>

HermiteCurveInit ==
    \/ Ready("HermiteCurve", HermiteCurveInputs)
    \/ Ready("HermiteCurveContinuity", HermiteCurveInputs)

HermiteCurveNext ==
    \/ HermiteCurve_continuity
    \/ HermiteCurveContinuity_call

SpecHermiteCurve == HermiteCurveInit /\ [][HermiteCurveNext]_vars

BezierSurfaceInit == Ready("BezierSurface", Surfaces)

SpecBezierSurface == BezierSurfaceInit /\ [][BezierSurface_continuity]_vars

ClassifyInit ==
    \/ Ready("BezierCurve", BezierCurves)
    \/ Ready("BezierSurface", Surfaces)
    \/ Ready("HermiteCurve", HermiteCurveInputs)
    \/ Ready("HermiteSurface", HermiteSurfaces)
    \/ Ready("BSplineCurve", Curves)
    \/ Ready("BSplineSurface", Surfaces)

ClassifyNext ==
    \/ BezierCurve_continuity
    \/ BezierSurface_continuity
    \/ HermiteCurve_continuity
    \/ HermiteSurface_continuity
    \/ BSplineCurve_continuity
    \/ BSplineSurface_continuity

SpecClassify == ClassifyInit /\ [][ClassifyNext]_vars

----------------------------------------------------------------------------
(* Evaluation specification: one call of an evaluator or of a Hermite
   continuity() on arrays the caller owns *)

\* Most samples per direction.
MaxNum == 4

\* The call that is made: the function, the caller's arrays (positions in
\* arrays), the sample counts and the order, the arrays as they were when
\* the call was made, the arrays handed on to the functions of hermite.py,
\* the locals knots and u of bspline.curve (knots_u, knots_v and u, v of
\* bspline.surface, one entry per direction), and the rows of the array
\* that basis returned to bspline.curve.
Call(fn, args, number_u, number_v, k, before, passed) ==
    [fn |-> fn, args |-> args, number_u |-> number_u, number_v |-> number_v,
     k |-> k, before |-> before, passed |-> passed, knots |-> <<>>, u |-> <<>>,
     basis |-> <<>>]

\* The caller has its arrays cps and is about to call fn.
Prepared(fn, cps, number_u, number_v, k) ==
    /\ OrdIdle
    /\ ClsIdle
    /\ GuiIdle
    /\ arrays = cps
    /\ call = Call(fn, [r \in 1..Len(cps) |-> r], number_u, number_v, k,
                   cps, <<>>)
    /\ nodes = NoNodes("not called")

\* The call fn returns: the arrays are now arrs, the arrays passed were the
\* positions passed, and the evaluator gave what.
Finish(arrs, passed, what) ==
    /\ arrays' = arrs
    /\ call' = [call EXCEPT !.passed = passed]
    /\ nodes' = what

\* bezier.curve(cp, num)
bezier_curve ==
    /\ call.fn = "bezier.curve" /\ nodes.kind = "not called"
    /\ Finish(arrays, <<>>, Nodes(curve(arrays[1], call.number_u)))
    /\ UNCHANGED <<ordVars, clsVars, guiVars>>

\* bspline.curve(cp, number_u, k)
bspline_curve_call ==
    /\ call.fn = "bspline.curve" /\ nodes.kind = "not called"
    /\ LET n == Len(arrays[1]) - 1
           knots == Knots(n, call.k)
           u == Parameters(knots, call.number_u)
           i == [p \in 1..(n + 1) |-> p - 1]
       IN  /\ arrays' = arrays
           /\ nodes' = bspline_curve(arrays[1], call.number_u, call.k)
           /\ IF knots = <<>>
              THEN call' = [call EXCEPT !.knots = <<knots>>]
              ELSE \E sums \in [1..call.number_u -> BOOLEAN] :
                      /\ \A j \in 1..call.number_u :
                             sums[j] \in RowSumIsOne(u[j], i, call.k, knots)
                      /\ call' = [call EXCEPT
                             !.knots = <<knots>>,
                             !.u = <<u>>,
                             !.basis =
                                 [j \in 1..call.number_u |->
                                     [values |-> basis(u[j], i, call.k, knots),
                                      exact |-> basis_is_exact(u[j], i, call.k, knots),
                                      sum_is_one |-> sums[j]]]]
    /\ UNCHANGED <<ordVars, clsVars, guiVars>>

\* bezier.surface(cp, num_u, num_v)
bezier_surface ==
    /\ call.fn = "bezier.surface" /\ nodes.kind = "not called"
    /\ Finish(arrays, <<>>, surface(arrays[1], call.number_u, call.number_v))
    /\ UNCHANGED <<ordVars, clsVars, guiVars>>

\* bspline.surface(cp, number_u, number_v, k)
bspline_surface_call ==
    /\ call.fn = "bspline.surface" /\ nodes.kind = "not called"
    /\ LET knots_u == Knots(NumU(arrays[1]) - 1, call.k)
           knots_v == Knots(NumV(arrays[1]) - 1, call.k)
       IN  /\ arrays' = arrays
           /\ call' = [call EXCEPT
                         !.knots = <<knots_u, knots_v>>,
                         !.u = IF 0 \in {Len(knots_u), Len(knots_v)} THEN <<>>
                               ELSE <<Parameters(knots_u, call.number_u),
                                      Parameters(knots_v, call.number_v)>>]
           /\ nodes' = bspline_surface(arrays[1], call.number_u,
                                       call.number_v, call.k)
    /\ UNCHANGED <<ordVars, clsVars, guiVars>>

\* HermiteCurve.calculate(cp, number_u, number_v, _)
HermiteCurve_calculate ==
    /\ call.fn = "HermiteCurve.calculate" /\ nodes.kind = "not called"
    /\ LET t == calculate_tangents("HermiteCurve", arrays, 1)
       IN  Finish(t.arrays, <<t.ref>>,
                  Nodes(HermiteCurve(t.arrays[t.ref], call.number_u)))
    /\ UNCHANGED <<ordVars, clsVars, guiVars>>

\* HermiteSurface.calculate(cp, number_u, number_v, _)
HermiteSurface_calculate ==
    /\ call.fn = "HermiteSurface.calculate" /\ nodes.kind = "not called"
    /\ LET t == calculate_tangents("HermiteSurface", arrays, 1)
       IN  Finish(t.arrays, <<t.ref>>,
                  HermiteSurface(t.arrays[t.ref], call.number_u, call.number_v))
    /\ UNCHANGED <<ordVars, clsVars, guiVars>>

\* HermiteCurve.continuity(cp_1, cp_2) and HermiteSurface.continuity(cp_1,
\* cp_2) on the caller's two arrays.
Hermite_continuity(class) ==
    /\ call.fn = class /\ result = NotCalled
    /\ LET t1 == calculate_tangents(class, arrays, 1)
           t2 == calculate_tangents(class, t1.arrays, 2)
           continuity ==
               IF class = "HermiteCurve"
               THEN HermiteCurveContinuity(t2.arrays[t1.ref], t2.arrays[t2.ref])
               ELSE HermiteSurfaceContinuity(t2.arrays[t1.ref], t2.arrays[t2.ref])
       IN  /\ Finish(t2.arrays, <<t1.ref, t2.ref>>, nodes)
           /\ result' = continuity
           /\ cont' = Wrap(continuity)
    /\ UNCHANGED <<family, cp_1, cp_2, ordVars, guiVars>>

\* Control points of the curves that are evaluated.
EvalPoints == {<<0, 0, 0>>, <<1, 2, 0>>, <<3, 1, 2>>}
EvalCurves == UNION {[1..n -> EvalPoints] : n \in 2..MaxCP}

\* Hermite arrays whose continuity is classified on the caller's arrays.
EvalHermiteCurves == [1..4 -> {<<0, 0, 0>>, <<1, 1, 1>>, <<1, 2, 1>>}]

\* Control grids of the surfaces that are evaluated: U x V points with
\* 2 <= U, V <= MaxCP, flat (s = 0) or warped (s = 1).
EvalGrid(U, V, s) ==
    [r \in 1..U |-> [c \in 1..V |-> <<r, c + s, s * r * c>>]]
EvalSurfaces ==
    {EvalGrid(U, V, s) : U \in 2..MaxCP, V \in 2..MaxCP, s \in {0, 1}}

EvalInit ==
    \/ \E cp \in EvalSurfaces, num_u \in 2..MaxNum, num_v \in 2..MaxNum :
           Prepared("bezier.surface", <<cp>>, num_u, num_v, 0)
    \/ \E cp \in EvalSurfaces, num_u \in 2..MaxNum, num_v \in 2..MaxNum,
          k \in 1..(MaxCP + 2) :
           Prepared("bspline.surface", <<cp>>, num_u, num_v, k)
    \/ \E cp \in EvalCurves, num \in 2..MaxNum :
           Prepared("bezier.curve", <<cp>>, num, 1, 0)
    \/ \E cp \in EvalCurves, num \in 2..MaxNum, k \in 1..(MaxCP + 2) :
           Prepared("bspline.curve", <<cp>>, num, 1, k)
    \/ \E cp \in HermiteCurves, num \in 2..MaxNum :
           Prepared("HermiteCurve.calculate", <<cp>>, num, 1, 0)
    \/ \E cp \in HermiteSurfaces, num_u \in 2..MaxNum, num_v \in 2..MaxNum :
           Prepared("HermiteSurface.calculate", <<cp>>, num_u, num_v, 0)
    \/ \E c1 \in EvalHermiteCurves, c2 \in EvalHermiteCurves :
           Prepared("HermiteCurve", <<c1, c2>>, 0, 0, 0)
    \/ \E c1 \in HermiteSurfaces, c2 \in HermiteSurfaces :
           Prepared("HermiteSurface", <<c1, c2>>, 0, 0, 0)

EvalNext ==
    \/ bezier_curve
    \/ bezier_surface
    \/ bspline_surface_call
    \/ bspline_curve_call
    \/ HermiteCurve_calculate
    \/ HermiteSurface_calculate
    \/ Hermite_continuity("HermiteCurve")
    \/ Hermite_continuity("HermiteSurface")

SpecEval == EvalInit /\ [][EvalNext]_vars

----------------------------------------------------------------------------
(* main.py: the geometry list, the selection and calculate_continuity *)

\* Most geometries in the window at one time.
MaxGeometries == 3

\* Most instances made of one class.
MaxInstances == MaxGeometries

\* Control points of the Bezier curves made in the window: a chain in
\* which consecutive curves meet with C1, G1 and CG0 continuity.
GuiBezierCurves ==
    { << <<2, 2, 0>>, <<3, 3, 0>>, <<4, 4, 0>> >>,
      << <<4, 4, 0>>, <<5, 5, 0>>, <<7, 5, 0>> >>,
      << <<7, 5, 0>>, <<11, 5, 0>>, <<12, 7, 0>> >>,
      << <<12, 7, 0>>, <<12, 8, 0>>, <<0, 0, 0>> >> }

\* Control points of the Hermite curves made in the window.
GuiHermiteCurves ==
    { << <<1, 1, 1>>, <<3, 3, 3>>, <<3, 3, 3>>, <<1, 2, 1>> >> }

\* The control points by class.
GuiControlPoints ==
    [BezierCurve |-> GuiBezierCurves, HermiteCurve |-> GuiHermiteCurves]

\* BezierCurve.continuity and HermiteCurve.continuity
ClassContinuity(class, cp1, cp2) ==
    IF class = "BezierCurve"
    THEN Wrap(BezierCurveContinuity(cp1, cp2))
    ELSE Wrap(HermiteCurveContinuity(HermiteCurve_calculate_tangents(cp1),
                                     HermiteCurve_calculate_tangents(cp2)))

\* continuity_of = tuple(geometry_classes)[0].continuity, tabulated over
\* the control points of the window's geometries.
continuity_of ==
    [class \in DOMAIN GuiControlPoints |->
        [cp1 \in GuiControlPoints[class] |->
            [cp2 \in GuiControlPoints[class] |->
                ClassContinuity(class, cp1, cp2)]]]

\* for i in range(len(geometries) - 1): for j in range(i+1, len(geometries)),
\* as positions 1..n, from the pair (i, j) on.
RECURSIVE PairsFrom(_, _, _)
PairsFrom(i, j, n) ==
    IF i >= n THEN <<>>
    ELSE IF j > n THEN PairsFrom(i + 1, i + 2, n)
    ELSE << <<i, j>> >> \o PairsFrom(i, j + 1, n)

\* The fold of the mutant of min: an item replaces the current one when the
\* current one is less than the item.
RECURSIVE MaxFold(_, _, _)
MaxFold(current, items, k) ==
    IF k > Len(items) THEN current
    ELSE MaxFold(IF Lt(current, items[k]) THEN items[k] ELSE current,
                 items, k + 1)

\* The builtin min over a list: the first item is kept until a later item
\* is less than it (item < current, Continuity.__lt__).
RECURSIVE MinFold(_, _, _)
MinFold(current, items, k) ==
    IF k > Len(items) THEN current
    ELSE MinFold(IF Lt(items[k], current) THEN items[k] ELSE current,
                 items, k + 1)

\* Mutant of min: the greatest item is returned.
max(items) == MaxFold(items[1], items, 2)

\* min(continuities)
min(items) == MinFold(items[1], items, 2)

\* What calculate_continuity returns: a Continuity, the string 'no', None,
\* or the exception that left it.
Summary(kind, value) == [kind |-> kind, value |-> value]

\* MainWindow.calculate_continuity(*gs)
calculate_continuity(gs) ==
    LET pairs == PairsFrom(1, 2, Len(gs))
        outs == [k \in 1..Len(pairs) |->
                    continuity_of[gs[1].class][gs[pairs[k][1]].cp]
                                 [gs[pairs[k][2]].cp]]
        failed == {k \in 1..Len(pairs) : outs[k].raised # "none"}
        first == CHOOSE k \in failed : \A m \in failed : k <= m
        continuities ==
            SelectSeq([k \in 1..Len(pairs) |-> outs[k].value], Bool)
    IN  IF Len(gs) >= 2 /\ Cardinality({gs[i].class : i \in 1..Len(gs)}) = 1
        THEN IF failed # {}
             THEN Summary(outs[first].raised, Continuity(None, NoOrder))
             ELSE IF Len(continuities) > 0
             THEN Summary("Continuity", min(continuities))
             ELSE Summary("no", Continuity(None, NoOrder))
        ELSE Summary("None", Continuity(None, NoOrder))

\* MainWindow.update_label_selected: the call it makes for the selection sel.
update_label_selected(sel) ==
    IF Len(sel) > 1 THEN calculate_continuity(sel) ELSE NotCalculated

\* Geometry.__repr__ without the fixed words: the class and its instance
\* number.
Name(geometry) == <<geometry.class, geometry.instance>>

\* MainWindow.set_selected_geometry(geometry, append) on the selection sel,
\* for a geometry that is not None.
set_selected_geometry(sel, geometry, append) ==
    IF append
    THEN IF \E k \in 1..Len(sel) : sel[k] = geometry
         THEN sel
         ELSE Append(sel, geometry)
    ELSE <<geometry>>

\* The loop of highlight_selected_geometry over the rows indices[k..]: the
\* row's name is looked up in the names of self.geometries and the first
\* geometry of that name is selected.
RECURSIVE SelectRows(_, _, _)
SelectRows(sel, indices, k) ==
    IF k > Len(indices) THEN sel
    ELSE LET name == Name(geometries[indices[k]])
             at == CHOOSE i \in 1..Len(geometries) :
                       /\ Name(geometries[i]) = name
                       /\ \A m \in 1..(i - 1) : Name(geometries[m]) # name
         IN  SelectRows(set_selected_geometry(sel, geometries[at],
                                              Len(indices) > 1),
                        indices, k + 1)

\* The rows the list widget can report as selected: distinct rows in any
\* order.
Selections ==
    [n \in 0..MaxGeometries |->
        {s \in UNION {[1..m -> 1..n] : m \in 0..n} :
            \A a, b \in DOMAIN s : a # b => s[a] # s[b]}]

\* Mutant of add_geometry: the instance number is the number of geometries
\* of the class that are in the window.
add_geometry_numbered_by_list(class, cp) ==
    /\ Len(geometries) < MaxGeometries
    /\ instances[class] < MaxInstances
    /\ instances' = [instances EXCEPT ![class] = @ + 1]
    /\ geometries' = Append(geometries,
                            [class |-> class,
                             instance |->
                                 Cardinality({i \in 1..Len(geometries) :
                                                 geometries[i].class = class}) + 1,
                             cp |-> cp])
    /\ UNCHANGED <<selected_geometry, summary, window, ordVars, clsVars, evalVars>>

\* Geometry.__init__ and MainWindow.add_geometry: a geometry of the class
\* with the control points cp is made and appended.
add_geometry(class, cp) ==
    /\ Len(geometries) < MaxGeometries
    /\ instances[class] < MaxInstances
    /\ instances' = [instances EXCEPT ![class] = @ + 1]
    /\ geometries' = Append(geometries,
                            [class |-> class,
                             instance |-> instances[class] + 1,
                             cp |-> cp])
    /\ UNCHANGED <<selected_geometry, summary, window, ordVars, clsVars, evalVars>>

\* MainWindow.highlight_selected_geometry with the rows indices selected
\* in the list widget.
highlight_selected_geometry(indices) ==
    /\ selected_geometry' =
           IF Len(indices) > 0
           THEN SelectRows(selected_geometry, indices, 1)
           ELSE <<>>
    /\ summary' = update_label_selected(selected_geometry')
    /\ UNCHANGED <<geometries, instances, window, ordVars, clsVars, evalVars>>

GuiInit == OrdIdle /\ ClsIdle /\ GuiIdle /\ EvalIdle

GuiNext ==
    \/ \E cp \in GuiBezierCurves : add_geometry("BezierCurve", cp)
    \/ \E cp \in GuiHermiteCurves : add_geometry("HermiteCurve", cp)
    \/ \E indices \in Selections[Len(geometries)] :
           highlight_selected_geometry(indices)

SpecGui == GuiInit /\ [][GuiNext]_vars

-----------------------------------------------------------------------------
(* main.py: geometries are made and removed *)

\* Control points of the geometries that are made and removed, one array
\* per class.
NamesControlPoints ==
    [BezierCurve |-> << <<2, 2, 0>>, <<3, 3, 0>>, <<4, 4, 0>> >>,
     HermiteCurve |-> << <<1, 1, 1>>, <<3, 3, 3>>, <<3, 3, 3>>, <<1, 2, 1>> >>]

\* The loop of remove_selected_geometries over sel[k..]:
\* del self.geometries[self.geometries.index(geometry)].
RECURSIVE RemoveEach(_, _, _)
RemoveEach(list, sel, k) ==
    IF k > Len(sel) THEN list
    ELSE LET at == CHOOSE i \in 1..Len(list) :
                       /\ list[i] = sel[k]
                       /\ \A m \in 1..(i - 1) : list[m] # sel[k]
         IN  RemoveEach(SubSeq(list, 1, at - 1) \o SubSeq(list, at + 1, Len(list)),
                        sel, k + 1)

\* MainWindow.remove_selected_geometries with a selection: the selected
\* geometries leave self.geometries and the selection is cleared; the
\* counters of the classes and the label of the continuity are not touched.
remove_selected_geometries ==
    /\ Len(selected_geometry) > 0
    /\ geometries' = RemoveEach(geometries, selected_geometry, 1)
    /\ selected_geometry' = <<>>
    /\ UNCHANGED <<instances, summary, window, ordVars, clsVars, evalVars>>

NamesNext ==
    \/ \E class \in DOMAIN NamesControlPoints :
           add_geometry(class, NamesControlPoints[class])
    \/ \E indices \in Selections[Len(geometries)] :
           highlight_selected_geometry(indices)
    \/ remove_selected_geometries

SpecNames == GuiInit /\ [][NamesNext]_vars

----------------------------------------------------------------------------
(* main.py: the fields for the number of control points and the order *)

\* Most geometries in the window while the fields are used.
MaxShapes == 2

\* Highest value of the spin boxes field_cp_u, field_cp_v (from 2) and
\* field_order (from 1), and of settings_field_cp.
MaxField == 4

\* A geometry of the window: its class, the shape of its cp array and its
\* order attribute (0 for a Bezier curve, whose order is not stored).
Shape(class, number_cp_u, number_cp_v, order) ==
    [class |-> class, number_cp_u |-> number_cp_u,
     number_cp_v |-> number_cp_v, order |-> order]

IsBSpline(geometry) == geometry.class \in {"BSplineCurve", "BSplineSurface"}
IsSurface(geometry) == geometry.class = "BSplineSurface"

Min2(a, b) == IF a < b THEN a ELSE b

\* BSplineCurve.max_order(number_cp_u) and BSplineSurface.max_order(
\* number_cp_u): the second direction of a surface is its current one.
max_order_for(geometry, number_cp_u) ==
    IF IsSurface(geometry) THEN Min2(number_cp_u, geometry.number_cp_v)
    ELSE number_cp_u

\* geometry.max_order()
max_order(geometry) == max_order_for(geometry, geometry.number_cp_u)

\* self.calculate(self.cp, ...) of Geometry.update leaves by the assertion
\* of bspline.curve or bspline.surface.
CalculateAsserts(geometry) ==
    /\ IsBSpline(geometry)
    /\ \/ Knots(geometry.number_cp_u - 1, geometry.order) = <<>>
       \/ /\ IsSurface(geometry)
          /\ Knots(geometry.number_cp_v - 1, geometry.order) = <<>>

\* Geometry.update on the geometry at position at, after its attributes
\* were stored as in stored.
Geometry_update(w, at, stored) ==
    [w EXCEPT !.geometries[at] = stored,
              !.raised = IF CalculateAsserts(stored) THEN "AssertionError"
                         ELSE "none"]

\* MainWindow.update_order(value), from the k-th selected geometry on.
RECURSIVE update_order_from(_, _, _)
update_order_from(w, value, k) ==
    IF k > Len(w.selected_geometry) THEN w
    ELSE LET at == w.selected_geometry[k]
             geometry == w.geometries[at]
         IN  IF IsBSpline(geometry)
             THEN IF value > max_order(geometry)
                  THEN [w EXCEPT !.field_order = max_order(geometry)]
                  ELSE LET w2 == Geometry_update(w, at,
                                     [geometry EXCEPT !.order = w.field_order])
                       IN  IF w2.raised # "none" THEN w2
                           ELSE update_order_from(w2, value, k + 1)
             ELSE update_order_from(w, value, k + 1)

\* Curve.resize_cp and Surface.resize_cp with the values of the two fields.
resize_cp(w, geometry) ==
    IF IsSurface(geometry)
    THEN [geometry EXCEPT !.number_cp_u = w.field_cp_u,
                          !.number_cp_v = w.field_cp_v]
    ELSE [geometry EXCEPT !.number_cp_u = w.field_cp_u]

\* MainWindow.update_number_cp(value), from the k-th selected geometry on.
\* field_order.setValue emits valueChanged, which runs update_order.
RECURSIVE update_number_cp_from(_, _, _)
update_number_cp_from(w, value, k) ==
    IF k > Len(w.selected_geometry) THEN w
    ELSE LET at == w.selected_geometry[k]
             lowest == max_order_for(w.geometries[at], value)
             w1 == IF IsBSpline(w.geometries[at]) /\ w.field_order > lowest
                   THEN update_order_from([w EXCEPT !.field_order = lowest],
                                          lowest, 1)
                   ELSE w
             w2 == Geometry_update(w1, at, resize_cp(w1, w1.geometries[at]))
         IN  IF w1.raised # "none" THEN w1
             ELSE IF w2.raised # "none" THEN w2
             ELSE update_number_cp_from(w2, value, k + 1)

\* MainWindow.load_fields_with_selected_geometries
load_fields_with_selected_geometries(w) ==
    IF w.selected_geometry = <<>>
    THEN [w EXCEPT !.cp_enabled = FALSE]
    ELSE LET geometry == w.geometries[w.selected_geometry[Len(w.selected_geometry)]]
         IN  [w EXCEPT
                !.cp_enabled = TRUE,
                !.cp_v_enabled = IsSurface(geometry),
                !.order_visible =
                    \A k \in 1..Len(w.selected_geometry) :
                        IsBSpline(w.geometries[w.selected_geometry[k]]),
                !.field_cp_u = geometry.number_cp_u,
                !.field_cp_v = IF IsSurface(geometry) THEN geometry.number_cp_v
                               ELSE @,
                !.field_order = IF IsBSpline(geometry) THEN geometry.order
                                ELSE @]

\* The loop of highlight_selected_geometry over the rows indices[k..], on
\* positions: without removals every name is that of one geometry.
RECURSIVE SelectPositions(_, _, _)
SelectPositions(sel, indices, k) ==
    IF k > Len(indices) THEN sel
    ELSE SelectPositions(set_selected_geometry(sel, indices[k], Len(indices) > 1),
                         indices, k + 1)

\* make_bezier_curve, make_bspline_curve and make_bspline_surface with
\* settings_field_cp at number_cp: Geometry.__init__ and add_geometry.
MakeGeometry(class, number_cp) ==
    /\ window.raised = "none"
    /\ Len(window.geometries) < MaxShapes
    /\ window' =
           [window EXCEPT !.geometries =
               Append(@, Shape(class, number_cp,
                               IF class = "BSplineSurface" THEN number_cp ELSE 1,
                               IF class = "BezierCurve" THEN 0 ELSE 2))]
    /\ UNCHANGED <<geometries, selected_geometry, instances, summary,
                   ordVars, clsVars, evalVars>>

\* highlight_selected_geometry with the rows indices selected in the list.
SelectInList(indices) ==
    /\ window.raised = "none"
    /\ window' =
           load_fields_with_selected_geometries(
               [window EXCEPT !.selected_geometry =
                   IF Len(indices) > 0 THEN SelectPositions(@, indices, 1)
                   ELSE <<>>])
    /\ UNCHANGED <<geometries, selected_geometry, instances, summary,
                   ordVars, clsVars, evalVars>>

\* The user sets field_cp_u to value: update_number_cp(value).
SetFieldCpU(value) ==
    /\ window.raised = "none"
    /\ window.cp_enabled
    /\ value # window.field_cp_u
    /\ window' = update_number_cp_from([window EXCEPT !.field_cp_u = value],
                                       value, 1)
    /\ UNCHANGED <<geometries, selected_geometry, instances, summary,
                   ordVars, clsVars, evalVars>>

\* The user sets field_cp_v to value: update_number_cp(value).
SetFieldCpV(value) ==
    /\ window.raised = "none"
    /\ window.cp_enabled /\ window.cp_v_enabled
    /\ value # window.field_cp_v
    /\ window' = update_number_cp_from([window EXCEPT !.field_cp_v = value],
                                       value, 1)
    /\ UNCHANGED <<geometries, selected_geometry, instances, summary,
                   ordVars, clsVars, evalVars>>

\* The user sets field_order to value: update_order(value).
SetFieldOrder(value) ==
    /\ window.raised = "none"
    /\ window.cp_enabled /\ window.order_visible
    /\ value # window.field_order
    /\ window' = update_order_from([window EXCEPT !.field_order = value],
                                   value, 1)
    /\ UNCHANGED <<geometries, selected_geometry, instances, summary,
                   ordVars, clsVars, evalVars>>

\* The rows the list can report for n geometries: distinct rows.
ShapeSelections(n) ==
    {s \in UNION {[1..m -> 1..n] : m \in 0..n} :
        \A a, b \in DOMAIN s : a # b => s[a] # s[b]}

FieldsInit == OrdIdle /\ ClsIdle /\ GuiIdle /\ EvalIdle

FieldsNext ==
    \/ \E number_cp \in 2..MaxField : MakeGeometry("BezierCurve", number_cp)
    \/ \E number_cp \in 2..MaxField : MakeGeometry("BSplineCurve", number_cp)
    \/ \E number_cp \in 2..MaxField : MakeGeometry("BSplineSurface", number_cp)
    \/ \E indices \in ShapeSelections(Len(window.geometries)) :
           SelectInList(indices)
    \/ \E value \in 2..MaxField : SetFieldCpU(value)
    \/ \E value \in 2..MaxField : SetFieldCpV(value)
    \/ \E value \in 1..MaxField : SetFieldOrder(value)

SpecFields == FieldsInit /\ [][FieldsNext]_vars

----------------------------------------------------------------------------
(* Ordering specification: construct two Continuity objects, compare them *)

\* Arguments the constructor is called with.
TypeArgs == {None, "C", "G", "CG", "X"}
OrderArgs == {NoOrder} \cup (0..MaxOrder)

OrdInit == OrdIdle /\ ClsIdle /\ GuiIdle /\ EvalIdle

\* a = Continuity(type, order)
ConstructLhs(type, order) ==
    /\ IF InitAsserts(type, order)
       THEN lhs' = Continuity(type, order) /\ raised' = "none"
       ELSE lhs' = lhs /\ raised' = "AssertionError"
    /\ cmp' = NotCompared
    /\ UNCHANGED <<rhs, clsVars, guiVars, evalVars>>

\* b = Continuity(type, order)
ConstructRhs(type, order) ==
    /\ IF InitAsserts(type, order)
       THEN rhs' = Continuity(type, order) /\ raised' = "none"
       ELSE rhs' = rhs /\ raised' = "AssertionError"
    /\ cmp' = NotCompared
    /\ UNCHANGED <<lhs, clsVars, guiVars, evalVars>>

\* Evaluate a < b, a > b, a == b, a != b, a <= b, a >= b.
Compare ==
    /\ ~cmp.done
    /\ cmp' = [done |-> TRUE,
               lt |-> Lt(lhs, rhs), gt |-> Gt(lhs, rhs),
               eq |-> Eq(lhs, rhs), ne |-> Ne(lhs, rhs),
               le |-> Le(lhs, rhs), ge |-> Ge(lhs, rhs)]
    /\ raised' = "none"
    /\ UNCHANGED <<lhs, rhs, clsVars, guiVars, evalVars>>

OrdNext ==
    \/ \E t \in TypeArgs, o \in OrderArgs : ConstructLhs(t, o)
    \/ \E t \in TypeArgs, o \in OrderArgs : ConstructRhs(t, o)
    \/ Compare

SpecOrd == OrdInit /\ [][OrdNext]_vars

----------------------------------------------------------------------------
(* Claims about the ordering (checked under SpecOrd) *)

\* Both operands were compared and both exist.
BothExist == cmp.done /\ Bool(lhs) /\ Bool(rhs)

\* C1: for existing a and b, a < b iff (a.order < b.order, or a is G and b
\* is C at equal order) and a != b.
C1_LtIffOrderOrKindAtEqualOrder ==
    BothExist =>
        (cmp.lt <=> /\ \/ lhs.order < rhs.order
                       \/ (lhs.type = "G" /\ rhs.type = "C" /\ lhs.order = rhs.order)
                    /\ cmp.ne)

\* C2: a lower order is always below a higher order and never above it, the
\* relation is asymmetric, and exactly one of a < b, a == b, b < a holds.
C2_OrderDominatesKind ==
    BothExist =>
        /\ (lhs.order < rhs.order => cmp.lt /\ ~cmp.gt)
        /\ ~(cmp.lt /\ cmp.gt)
        /\ \/ (cmp.lt /\ ~cmp.eq /\ ~cmp.gt)
           \/ (~cmp.lt /\ cmp.eq /\ ~cmp.gt)
           \/ (~cmp.lt /\ ~cmp.eq /\ cmp.gt)

\* C3: a == b exactly when both exist and either both have order 0 or kind
\* and order agree; with a non-existent operand a == b is false.
C3_EqualityRule ==
    cmp.done =>
        (cmp.eq <=> /\ lhs.type # None /\ lhs.order # NoOrder
                    /\ rhs.type # None /\ rhs.order # NoOrder
                    /\ \/ (lhs.order = 0 /\ rhs.order = 0)
                       \/ (lhs.type = rhs.type /\ lhs.order = rhs.order))

\* C0 == G0 was evaluated and is true.
C3_Witness ==
    /\ cmp.done /\ cmp.eq
    /\ lhs = [type |-> "C", order |-> 0]
    /\ rhs = [type |-> "G", order |-> 0]

\* C4: at a shared positive order n, Gn < Cn is true and Cn < Gn is false;
\* C1 < C2 is true; so C1 > G1 and C2 > C1 under the reflected less-than.
C4_ParametricAboveGeometric ==
    cmp.done =>
        /\ \A n \in 1..2 :
            /\ (lhs = [type |-> "G", order |-> n] /\ rhs = [type |-> "C", order |-> n])
                    => (cmp.lt /\ ~cmp.gt)
            /\ (lhs = [type |-> "C", order |-> n] /\ rhs = [type |-> "G", order |-> n])
                    => (~cmp.lt /\ cmp.gt)
        /\ (lhs = [type |-> "C", order |-> 1] /\ rhs = [type |-> "C", order |-> 2])
                => cmp.lt
        /\ (lhs = [type |-> "C", order |-> 2] /\ rhs = [type |-> "C", order |-> 1])
                => cmp.gt

\* C1 > G1 was evaluated and is true.
C4_Witness ==
    /\ cmp.done /\ cmp.gt
    /\ lhs = [type |-> "C", order |-> 1]
    /\ rhs = [type |-> "G", order |-> 1]

\* C5 (as claimed): a non-existent e is lowest: e < c is true and c < e is
\* false for every existing c.
C5_NonExistentIsLowest ==
    (cmp.done /\ ~Bool(lhs) /\ Bool(rhs)) => (cmp.lt /\ ~cmp.gt)

\* C5 (amended): a non-existent e is never below and never above an
\* existing c: e < c is false and c < e is false.
C5_NonExistentIsIncomparable ==
    (cmp.done /\ (lhs.type = None \/ lhs.order = NoOrder)
              /\ rhs.type # None /\ rhs.order # NoOrder)
        => (~cmp.lt /\ ~cmp.gt)

\* Continuity() < Continuity('C', 1) was evaluated.
C5_Witness ==
    /\ cmp.done /\ ~cmp.lt
    /\ lhs = [type |-> None, order |-> NoOrder]
    /\ rhs = [type |-> "C", order |-> 1]

----------------------------------------------------------------------------
(* Claims about BezierCurveContinuity (checked under SpecBezierCurve) *)

\* BezierCurveContinuity(cp_1, cp_2) has been called.
Called == result.kind # "not called"

\* Curve a ends where curve b starts.
Joins(a, b) == a[Len(a)] = b[1]

\* The first differences next to the join of a (ending) and b (starting).
TangentIn(a) == VSub(a[Len(a)], a[Len(a) - 1])
TangentOut(b) == VSub(b[2], b[1])

\* The second differences next to the join, for curves of three or more
\* control points.
CurvatureIn(a) ==
    VSub(VSub(a[Len(a)], a[Len(a) - 1]), VSub(a[Len(a) - 1], a[Len(a) - 2]))
CurvatureOut(b) == VSub(VSub(b[3], b[2]), VSub(b[2], b[1]))

Dot(u, v) == u[1] * v[1] + u[2] * v[2] + u[3] * v[3]

\* u and v are parallel: their cross product vanishes.
Parallel(u, v) ==
    /\ u[2] * v[3] = u[3] * v[2]
    /\ u[3] * v[1] = u[1] * v[3]
    /\ u[1] * v[2] = u[2] * v[1]

\* u is a positive scalar multiple of v (both non-zero, same direction).
PositiveMultiple(u, v) == Parallel(u, v) /\ Dot(u, v) > 0

C9_TangentsMatchAtTheJoin ==
    (Called /\ result.kind = "tuple" /\ result.type = "C") =>
        \E o \in {<<cp_1, cp_2>>, <<cp_2, cp_1>>} :
            /\ Joins(o[1], o[2])
            /\ TangentIn(o[1]) = TangentOut(o[2])
            /\ result.order = 2 =>
                   /\ Len(o[1]) >= 3 /\ Len(o[2]) >= 3
                   /\ CurvatureIn(o[1]) = CurvatureOut(o[2])

\* C10: a G1 result has a shared endpoint at which the two first
\* differences differ and one is a positive scalar multiple of the other;
\* anti-parallel or zero tangents never give G1.
C10_G1OnlyForSameDirection ==
    (Called /\ result = Tuple("G", 1)) =>
        \E o \in {<<cp_1, cp_2>>, <<cp_2, cp_1>>} :
            /\ Joins(o[1], o[2])
            /\ TangentIn(o[1]) # TangentOut(o[2])
            /\ PositiveMultiple(TangentIn(o[1]), TangentOut(o[2]))

\* C11: for the first two curves of preset_1, in that order, the result is
\* G1: the first ends where the second starts, and the first differences
\* at that join are parallel, point the same way and are not equal.
C11_Preset1IsG1 ==
    (Called /\ cp_1 = preset_1[1] /\ cp_2 = preset_1[2]) =>
        /\ result = Tuple("G", 1)
        /\ Joins(cp_1, cp_2)
        /\ TangentIn(cp_1) # TangentOut(cp_2)
        /\ PositiveMultiple(TangentIn(cp_1), TangentOut(cp_2))

\* The classifier has returned for the first two curves of preset_1.
C11_Witness ==
    /\ cp_1 = preset_1[1] /\ cp_2 = preset_1[2]
    /\ result = Tuple("G", 1)
    /\ cont = [raised |-> "none", value |-> Continuity("G", 1)]

----------------------------------------------------------------------------
(* Claims about BezierSurfaceContinuity (checked under SpecBezierSurface) *)

\* The boundary curves u = 0, v = 0, u = U-1, v = V-1 of a grid.
BoundaryCurves(cp) ==
    << Row(cp, 1), Column(cp, 1), Row(cp, NumU(cp)), Column(cp, NumV(cp)) >>

\* The pairs (i, j) of coincident boundary curves, numbered in the order of
\* the two nested loops.
CoincidentBoundaries(cp1, cp2) ==
    {n \in 1..16 : BoundaryCurves(cp1)[SidePairs[n][1]]
                       = BoundaryCurves(cp2)[SidePairs[n][2]]}

FirstCoincident(cp1, cp2) ==
    CHOOSE h \in CoincidentBoundaries(cp1, cp2) :
        \A g \in CoincidentBoundaries(cp1, cp2) : h <= g

\* C12: for grids of U x V control points (U, V >= 2) the call returns,
\* and returns None exactly when no boundary curve of the first surface
\* coincides with a boundary curve of the second; otherwise it returns the
\* grade of the first coincident pair of boundary curves.
C12_EdgesAreTheBoundaryCurves ==
    (Called /\ family = "BezierSurface") =>
        IF CoincidentBoundaries(cp_1, cp_2) = {}
        THEN result = NoneResult
        ELSE result =
                 BezierEdgeGrade(
                     SideArray(BoundaryCurves(cp_1)
                                   [SidePairs[FirstCoincident(cp_1, cp_2)][1]]),
                     SideArray(BoundaryCurves(cp_2)
                                   [SidePairs[FirstCoincident(cp_1, cp_2)][2]]))

\* The k-th curve of control points counted inwards from boundary e
\* (1: u = 0, 2: v = 0, 3: u = U-1, 4: v = V-1).
Inward(cp, e, k) ==
    IF e = 1 THEN Row(cp, k)
    ELSE IF e = 2 THEN Column(cp, k)
    ELSE IF e = 3 THEN Row(cp, NumU(cp) - k + 1)
    ELSE Column(cp, NumV(cp) - k + 1)

\* First differences across the join: leaving the first surface through
\* its boundary e, and entering the second through its boundary e.
Leaving(cp, e) ==
    Flat([m \in 1..Len(Inward(cp, e, 1)) |->
             VSub(Inward(cp, e, 1)[m], Inward(cp, e, 2)[m])])
Entering(cp, e) ==
    Flat([m \in 1..Len(Inward(cp, e, 1)) |->
             VSub(Inward(cp, e, 2)[m], Inward(cp, e, 1)[m])])

\* Second differences next to boundary e.
SecondAcross(cp, e) ==
    Flat([m \in 1..Len(Inward(cp, e, 1)) |->
             VSub(VSub(Inward(cp, e, 3)[m], Inward(cp, e, 2)[m]),
                  VSub(Inward(cp, e, 2)[m], Inward(cp, e, 1)[m]))])

\* a is a positive multiple of b, as flat arrays.
ProportionalArrays(a, b) ==
    /\ \A m, n \in DOMAIN a : a[m] * b[n] = a[n] * b[m]
    /\ DotN(a, b) > 0

\* The grade of the join of boundary i of cp1 with boundary j of cp2, from
\* the control points next to the join.
CrossingGrade(cp1, i, cp2, j) ==
    IF Leaving(cp1, i) = Entering(cp2, j)
    THEN IF SecondAcross(cp1, i) = SecondAcross(cp2, j)
         THEN Tuple("C", 2)
         ELSE Tuple("C", 1)
    ELSE IF ProportionalArrays(Leaving(cp1, i), Entering(cp2, j))
    THEN Tuple("G", 1)
    ELSE Tuple("CG", 0)

\* C13: for two 3 x 3 grids that share a boundary curve, the result is the
\* grade of the first coincident pair computed from the control points
\* next to that boundary across the join: C2 when first and second
\* differences match, C1 when only the first do, G1 when the first are
\* proportional, CG0 otherwise; the two grids of preset_2 give C1.
C13_GradeAcrossTheSharedEdge ==
    (/\ Called /\ family = "BezierSurface"
     /\ NumU(cp_1) = 3 /\ NumU(cp_2) = 3
     /\ CoincidentBoundaries(cp_1, cp_2) # {}) =>
        /\ result =
               CrossingGrade(cp_1, SidePairs[FirstCoincident(cp_1, cp_2)][1],
                             cp_2, SidePairs[FirstCoincident(cp_1, cp_2)][2])
        /\ (cp_1 = preset_2[1] /\ cp_2 = preset_2[2]) =>
               result = Tuple("C", 1)

----------------------------------------------------------------------------
(* Claims about HermiteCurveContinuity (checked under SpecHermiteCurve) *)

\* C14: for the two curves of preset_3, in that order, the Hermite curve
\* classifier gives C2, whether it is called on the arrays as they are
\* (the example of hermite.py) or through HermiteCurve.continuity.
C14_Preset3IsC2 ==
    (Called /\ cp_1 = preset_3[1] /\ cp_2 = preset_3[2]) =>
        result = Tuple("C", 2)

\* The array the classifier function receives for cp: cp itself in the
\* direct call, the array with tangents calculated through the class.
Received(cp) ==
    IF family = "HermiteCurve" THEN HermiteCurve_calculate_tangents(cp) ELSE cp

\* C15: when an end position of one curve is the start position of the
\* other and the end and start tangents are not equal, a zero component
\* in any of the four tangent vectors of the two curves makes the result
\* CG0, never G1.
C15_ZeroTangentComponentIsCG0 ==
    LET p1 == Received(cp_1)
        p2 == Received(cp_2)
    IN  (/\ Called
         /\ p1[2] = p2[1] \/ p2[2] = p1[1]
         /\ ~(p1[4] = p2[3] \/ p2[4] = p1[3])
         /\ \E k \in {3, 4} : HasZero(p1[k]) \/ HasZero(p2[k])) =>
            result = Tuple("CG", 0)

----------------------------------------------------------------------------
(* Claims about the values the classifiers give (checked under SpecClassify) *)

\* C7: whenever a classifier of any class returns a (type, order) tuple,
\* the type is C, G or CG, the order is 0, 1 or 2, CG comes with order 0
\* only, and the wrapper builds exactly that Continuity without an
\* assertion failing; the constructor's assertion fails for CG with any
\* order above 0.
C7_ClassifierValuesAreWellFormed ==
    /\ result.kind = "tuple" =>
           /\ result.type \in {"C", "G", "CG"}
           /\ result.order \in {0, 1, 2}
           /\ result.type = "CG" => result.order = 0
           /\ cont = [raised |-> "none",
                      value |-> Continuity(result.type, result.order)]
    /\ \A o \in 1..MaxOrder :
           /\ ~InitAsserts("CG", o)
           /\ Wrap(Tuple("CG", o)).raised = "AssertionError"

\* BSplineSurface.continuity built the mixed value of order 0.
C7_Witness ==
    /\ family = "BSplineSurface"
    /\ result = Tuple("CG", 0)
    /\ cont = [raised |-> "none", value |-> Continuity("CG", 0)]

----------------------------------------------------------------------------
(* Claims about calculate_continuity (checked under SpecGui) *)

\* The existing continuities of the C(N,2) pairs of the geometries gs.
ExistingPairwise(gs) ==
    {c \in {ClassContinuity(gs[p[1]].class, gs[p[1]].cp, gs[p[2]].cp).value :
                p \in {q \in (1..Len(gs)) \X (1..Len(gs)) : q[1] < q[2]}} :
        Bool(c)}

\* C6: a Continuity reported for the selection comes from two or more
\* selected geometries of one class, is one of the existing continuities
\* of their pairs, and no existing continuity of a pair is less than it.
C6_SummaryIsWorstCase ==
    summary.kind = "Continuity" =>
        /\ Len(selected_geometry) >= 2
        /\ \A k \in 1..Len(selected_geometry) :
               selected_geometry[k].class = selected_geometry[1].class
        /\ summary.value \in ExistingPairwise(selected_geometry)
        /\ \A c \in ExistingPairwise(selected_geometry) :
               ~Lt(c, summary.value)

\* Three curves are selected whose pairs are C1, G1 and non-existent, and
\* G1 is reported.
C6_Witness ==
    /\ Len(selected_geometry) = 3
    /\ summary = Summary("Continuity", Continuity("G", 1))
    /\ Continuity("C", 1) \in ExistingPairwise(selected_geometry)

----------------------------------------------------------------------------
(* Claims about HermiteSurfaceContinuity (checked under SpecClassify) *)

\* Edge i of a Hermite array with tangents calculated: two corner slots
\* and the two slots of the tangents along the edge.
HermiteEdge(cp, i) == HermiteSides(HermiteSurface_calculate_tangents(cp))[i]

\* C16: HermiteSurface.continuity gets ('CG', 0) exactly when one of the
\* four edges of the first surface equals one of the four edges of the
\* second in every slot and coordinate, and None otherwise; no C or G
\* value of order 1 or 2 comes back.
C16_HermiteSurfaceIsCG0OrNone ==
    (Called /\ family = "HermiteSurface") =>
        /\ result \in {Tuple("CG", 0), NoneResult}
        /\ result = Tuple("CG", 0) <=>
               \E i \in 1..4, j \in 1..4 :
                   HermiteEdge(cp_1, i) = HermiteEdge(cp_2, j)
        /\ cont.raised = "none"
        /\ cont.value.type \notin {"C", "G"}

\* Two different surfaces share an edge and the mixed value was built.
C16_Witness ==
    /\ family = "HermiteSurface"
    /\ cp_1 # cp_2
    /\ HermiteEdge(cp_1, 3) = HermiteEdge(cp_2, 1)
    /\ result = Tuple("CG", 0)
    /\ cont.value = Continuity("CG", 0)

----------------------------------------------------------------------------
(* Claims about the evaluators and the caller's arrays *)

\* The Hermite call (calculate or continuity) has returned or raised.
HermiteCallDone ==
    /\ call.fn \in {"HermiteCurve.calculate", "HermiteSurface.calculate",
                    "HermiteCurve", "HermiteSurface"}
    /\ call.passed # <<>>

\* The array copy holds the corners of the array original and, in every
\* other slot, (displacement target - corresponding corner) x
\* hermite_tangent_scaling.
Scaled(target, corner) ==
    [a \in Axes |-> (target[a] - corner[a]) * hermite_tangent_scaling]

DerivedFrom(copy, original) ==
    IF call.fn \in {"HermiteCurve.calculate", "HermiteCurve"}
    THEN /\ copy[1] = original[1]
         /\ copy[2] = original[2]
         /\ copy[3] = Scaled(original[3], original[1])
         /\ copy[4] = Scaled(original[4], original[2])
    ELSE \A a \in 1..4, b \in 1..4 :
             copy[a][b] =
                 IF a <= 2 /\ b <= 2 THEN original[a][b]
                 ELSE Scaled(original[a][b],
                             original[IF a > 2 THEN a - 2 ELSE a]
                                     [IF b > 2 THEN b - 2 ELSE b])

\* C17: after HermiteCurve.calculate, HermiteSurface.calculate,
\* HermiteCurve.continuity or HermiteSurface.continuity, every array of the
\* caller holds what it held when the call was made; the array handed to
\* hermite.py for each of them is another array, holding the corners
\* unchanged and (target - corner) x hermite_tangent_scaling in the tangent
\* and twist slots.
C17_CallerArraysUnchanged ==
    HermiteCallDone =>
        /\ \A r \in 1..Len(call.args) : arrays[call.args[r]] = call.before[r]
        /\ Len(call.passed) = Len(call.args)
        /\ \A r \in 1..Len(call.passed) :
               /\ \A s \in 1..Len(call.args) : call.passed[r] # call.args[s]
               /\ DerivedFrom(arrays[call.passed[r]], call.before[r])

\* Two arrays with corners away from the origin were classified: both
\* copies differ from the arrays they were taken from.
C17_Witness ==
    /\ call.fn = "HermiteCurve"
    /\ result # NotCalled
    /\ Len(call.passed) = 2
    /\ arrays[call.passed[1]] # arrays[call.args[1]]
    /\ arrays[call.passed[2]] # arrays[call.args[2]]

\* C18: for p = <<P0, P1, T0, T1>> and num >= 2, hermite.HermiteCurve
\* returns num nodes, node 0 equal to P0 and node num - 1 equal to P1,
\* whatever T0 and T1 are.
C18_HermiteCurvePassesThroughCorners ==
    (call.fn = "HermiteCurve.calculate" /\ nodes.kind # "not called") =>
        LET p == arrays[call.passed[1]]
        IN  /\ nodes.kind = "nodes"
            /\ Len(nodes.value) = call.number_u
            /\ NodeIs(nodes.value[1], p[1])
            /\ NodeIs(nodes.value[call.number_u], p[2])

\* A curve with two different corners and two different non-zero tangents
\* was sampled at three parameters.
C18_Witness ==
    /\ call.fn = "HermiteCurve.calculate"
    /\ nodes.kind = "nodes"
    /\ call.number_u = 3
    /\ LET p == arrays[call.passed[1]]
       IN  /\ p[1] # p[2]
           /\ p[3] # p[4]
           /\ p[3] # <<0, 0, 0>>
           /\ p[4] # <<0, 0, 0>>

\* C19: for U >= 2 control points and num >= 2, bezier.curve returns num
\* nodes, the first equal to the first control point and the last equal to
\* the last control point; two control points sampled at num = 2 give
\* exactly the two control points.
C19_BezierCurveEndsAtControlPoints ==
    (call.fn = "bezier.curve" /\ nodes.kind # "not called") =>
        LET cp == arrays[1]
        IN  /\ nodes.kind = "nodes"
            /\ Len(nodes.value) = call.number_u
            /\ NodeIs(nodes.value[1], cp[1])
            /\ NodeIs(nodes.value[call.number_u], cp[Len(cp)])
            /\ (Len(cp) = 2 /\ call.number_u = 2) =>
                   \A j \in 1..2 : NodeIs(nodes.value[j], cp[j])

\* Two different control points were sampled at num = 2.
C19_Witness ==
    /\ call.fn = "bezier.curve"
    /\ nodes.kind = "nodes"
    /\ Len(arrays[1]) = 2
    /\ call.number_u = 2
    /\ arrays[1][1] # arrays[1][2]

\* C20: for N control points, an order k with 1 <= k <= N and number_u >= 2,
\* bspline.curve returns number_u nodes, the first equal to the first
\* control point and the last (parameter = last knot) equal to the last
\* control point.
C20_BSplineCurveEndsAtControlPoints ==
    (/\ call.fn = "bspline.curve"
     /\ nodes.kind # "not called"
     /\ 1 <= call.k
     /\ call.k <= Len(arrays[1])) =>
        LET cp == arrays[1]
        IN  /\ nodes.kind = "nodes"
            /\ Len(nodes.value) = call.number_u
            /\ NodeIs(nodes.value[1], cp[1])
            /\ NodeIs(nodes.value[call.number_u], cp[Len(cp)])

\* Three control points with different ends were sampled at order 2, which
\* has an interior knot and one repeated knot at each end.
C20_Witness ==
    /\ call.fn = "bspline.curve"
    /\ nodes.kind = "nodes"
    /\ Len(arrays[1]) = 3
    /\ call.k = 2
    /\ call.number_u = 3
    /\ arrays[1][1] # arrays[1][3]

\* C21: bspline.curve raises its assertion, returning no nodes, for every
\* order k greater than the number of control points, and bspline.surface
\* whenever k is greater than the number of control points in either
\* direction; for every k from 1 up to the number of control points (in
\* both directions) the assertion passes and nodes are returned.
C21_OrderAboveControlPointsIsRejected ==
    /\ (call.fn = "bspline.curve" /\ nodes.kind # "not called") =>
           IF call.k > Len(arrays[1])
           THEN nodes.kind = "AssertionError"
           ELSE nodes.kind = "nodes"
    /\ (call.fn = "bspline.surface" /\ nodes.kind # "not called") =>
           IF call.k > NumU(arrays[1]) \/ call.k > NumV(arrays[1])
           THEN nodes.kind = "AssertionError"
           ELSE nodes.kind = "nodes"

\* The value is a node grid of shape (3, n, 1): n nodes of three coordinates.
CurveShaped(value, n) ==
    /\ Len(value) = n
    /\ \A j \in 1..n : DOMAIN value[j] = Axes

\* The value is a node grid of shape (3, n_u, n_v).
SurfaceShaped(value, n_u, n_v) ==
    /\ Len(value) = n_u
    /\ \A i \in 1..n_u :
           /\ Len(value[i]) = n_v
           /\ \A j \in 1..n_v : DOMAIN value[i][j] = Axes

\* The order of the B-spline call is one the evaluator is meant for.
OrderInRange ==
    /\ 1 <= call.k
    /\ IF call.fn = "bspline.curve" THEN call.k <= Len(arrays[1])
       ELSE call.k <= NumU(arrays[1]) /\ call.k <= NumV(arrays[1])

\* C22: every curve evaluator called with sample count N returns a node
\* grid of shape (3, N, 1), and every surface evaluator called with sample
\* counts num_u, num_v >= 2, equal or not, returns a node grid of shape
\* (3, num_u, num_v) without raising.
C22_NodeGridShapes ==
    nodes.kind # "not called" =>
        /\ call.fn \in {"bezier.curve", "HermiteCurve.calculate"} =>
               nodes.kind = "nodes" /\ CurveShaped(nodes.value, call.number_u)
        /\ (call.fn = "bspline.curve" /\ OrderInRange) =>
               nodes.kind = "nodes" /\ CurveShaped(nodes.value, call.number_u)
        /\ call.fn \in {"bezier.surface", "HermiteSurface.calculate"} =>
               /\ nodes.kind = "nodes"
               /\ SurfaceShaped(nodes.value, call.number_u, call.number_v)
        /\ (call.fn = "bspline.surface" /\ OrderInRange) =>
               /\ nodes.kind = "nodes"
               /\ SurfaceShaped(nodes.value, call.number_u, call.number_v)

----------------------------------------------------------------------------
(* Claims about the B-spline classifiers (checked under SpecClassify) *)

\* The two endpoints of a curve and the first differences next to them.
CurveEnds(cp) == <<cp[1], cp[Len(cp)]>>
EndDifferences(cp) ==
    <<VSub(cp[2], cp[1]), VSub(cp[Len(cp)], cp[Len(cp) - 1])>>

\* The pairs (i, j) such that endpoint i (curves) or boundary edge i
\* (surfaces) of the first geometry coincides with endpoint or edge j of
\* the second.
Contacts ==
    IF family = "BSplineCurve"
    THEN {p \in (1..2) \X (1..2) : CurveEnds(cp_1)[p[1]] = CurveEnds(cp_2)[p[2]]}
    ELSE {p \in (1..4) \X (1..4) :
              BSplineEdges(cp_1)[p[1]] = BSplineEdges(cp_2)[p[2]]}

\* The first of them in the order of the two nested loops.
FirstContact ==
    CHOOSE p \in Contacts :
        \A q \in Contacts : p[1] < q[1] \/ (p[1] = q[1] /\ p[2] <= q[2])

\* The tangent differences paired with the first contact are equal.
FirstContactDifferencesEqual ==
    IF family = "BSplineCurve"
    THEN EndDifferences(cp_1)[FirstContact[1]]
             = EndDifferences(cp_2)[FirstContact[2]]
    ELSE BSplineTangents(cp_1)[FirstContact[1]]
             = BSplineTangents(cp_2)[FirstContact[2]]

\* C23: continuity_of_curves and continuity_of_surfaces give one of None,
\* ('CG', 0), ('C', 1), ('G', 1), never order 2; None exactly when no
\* endpoint or boundary edge of the first geometry coincides with one of
\* the second; ('C', 1) only when the tangent differences paired with the
\* first coincident endpoint or edge are equal.
C23_BSplineContinuityValues ==
    (family \in {"BSplineCurve", "BSplineSurface"} /\ Called) =>
        /\ result \in {NoneResult, Tuple("CG", 0), Tuple("C", 1), Tuple("G", 1)}
        /\ (result = NoneResult) <=> (Contacts = {})
        /\ result = Tuple("C", 1) => FirstContactDifferencesEqual

----------------------------------------------------------------------------
(* Claims about the B-spline evaluators (checked under SpecEval) *)

\* The number of segments n of the direction d of the B-spline call.
Segments(d) ==
    IF call.fn = "bspline.curve" THEN Len(arrays[1]) - 1
    ELSE IF d = 1 THEN NumU(arrays[1]) - 1 ELSE NumV(arrays[1]) - 1

\* The sample count of the direction d.
Samples(d) == IF d = 1 THEN call.number_u ELSE call.number_v

\* The whole numbers 0..n-k+2 in unit steps, the first repeated k - 1 more
\* times at the start and the last k - 1 more times at the end.
ClampedKnots(n, k) ==
    [t \in 1..(n + k + 1) |->
        IF t <= k - 1 THEN 0
        ELSE IF t > n + 2 THEN n - k + 2
        ELSE t - k]

\* C24: for n + 1 control points and order k with 1 <= k <= n + 1, the knot
\* vector built by bspline.curve (and by bspline.surface in each direction)
\* has length n + k + 1, is non-decreasing, is the whole numbers 0..n-k+2
\* with k - 1 extra copies of the first at the start and of the last at the
\* end, and the parameter samples run from exactly 0 to exactly the last
\* knot.
C24_KnotVector ==
    (/\ call.fn \in {"bspline.curve", "bspline.surface"}
     /\ nodes.kind # "not called"
     /\ OrderInRange) =>
        /\ Len(call.u) = Len(call.knots)
        /\ \A d \in 1..Len(call.knots) :
               LET knots == call.knots[d]
                   u == call.u[d]
                   n == Segments(d)
               IN  /\ Len(knots) = n + call.k + 1
                   /\ \A t \in 1..(Len(knots) - 1) : knots[t] <= knots[t + 1]
                   /\ knots = ClampedKnots(n, call.k)
                   /\ Len(u) = Samples(d)
                   /\ u[1] = Rat(0, 1)
                   /\ u[Len(u)] = Rat(knots[Len(knots)], 1)
                   /\ \A j \in 1..(Len(u) - 1) : RLe(u[j], u[j + 1])

\* Three control points at order 2: the knot vector 0, 0, 1, 2, 2.
C24_Witness ==
    /\ call.fn = "bspline.curve"
    /\ nodes.kind = "nodes"
    /\ call.k = 2
    /\ call.knots = << <<0, 0, 1, 2, 2>> >>
    /\ call.u[1][call.number_u] = Rat(2, 1)

\* The index array i + s of the order-1 calls that basis makes from order
\* k: s is 0..k-1, i is np.arange(n + 1).
Shifted(n, s) == [p \in 1..(n + 1) |-> p - 1 + s]

\* The indicator of knots[x] <= u < knots[x + 1], closed at the right end
\* for the last segment of the knot vector only.
SegmentIndicator(u, x, knots) ==
    IF /\ RLe(Rat(KnotAt(knots, x), 1), u)
       /\ IF x = Len(knots) - 2
          THEN RLe(u, Rat(KnotAt(knots, x + 1), 1))
          ELSE RLt(u, Rat(KnotAt(knots, x + 1), 1))
    THEN Rat(1, 1)
    ELSE Rat(0, 1)

\* C25: in the order-1 case of bspline.basis the value for segment index
\* x is the indicator of knots[x] <= u < knots[x+1], except only for the
\* last segment of the knot vector, where the interval is closed; so every
\* order-1 call made while evaluating a curve gives the same value for the
\* same (x, u, knots), whichever index array x is in.
C25_OrderOneBaseCase ==
    (call.fn = "bspline.curve" /\ nodes.kind = "nodes" /\ OrderInRange) =>
        LET knots == call.knots[1]
            n == Segments(1)
        IN  \A j \in 1..call.number_u, s \in 0..(call.k - 1), p \in 1..(n + 1) :
                basis(call.u[1][j], Shifted(n, s), 1, knots)[p]
                    = SegmentIndicator(call.u[1][j], Shifted(n, s)[p], knots)

----------------------------------------------------------------------------
(* Claims about the order of the B-spline geometries (checked under
   SpecFields) *)

\* C26: after any sequence of adding B-spline geometries, selecting one or
\* several geometries, changing the number of control points and changing
\* the order, every B-spline geometry's order is at most its number of
\* control points (the smaller of the two directions for a surface), and
\* Geometry.update has not tripped the assertion of the evaluator.
C26_OrderAtMostControlPoints ==
    /\ window.raised = "none"
    /\ \A at \in 1..Len(window.geometries) :
           LET geometry == window.geometries[at]
           IN  IsBSpline(geometry) =>
                   /\ geometry.order <= geometry.number_cp_u
                   /\ IsSurface(geometry) => geometry.order <= geometry.number_cp_v

----------------------------------------------------------------------------
(* Further claims about BezierCurveContinuity (checked under
   SpecBezierCurve) *)

\* C27: for every pair of Bezier curve control grids with at least two
\* control points each, BezierCurveContinuity ends with None or one of
\* ('CG', 0), ('G', 1), ('C', 1), ('C', 2) and never raises, also when the
\* endpoint is shared and the tangents are equal.
C27_BezierCurveContinuityNeverRaises ==
    (family = "BezierCurve" /\ Called) =>
        result \in {NoneResult, Tuple("CG", 0), Tuple("G", 1),
                    Tuple("C", 1), Tuple("C", 2)}

\* C28: BezierCurveContinuity(cp1, cp2) and BezierCurveContinuity(cp2, cp1)
\* give the same result, or both raise.
C28_BezierCurveContinuityIsSymmetric ==
    (family = "BezierCurve" /\ Called) =>
        result = BezierCurveContinuity(cp_2, cp_1)

\* The first curve ends where the second starts, not the other way round,
\* the tangents there are parallel and unequal, and the call gave G1.
C28_Witness ==
    /\ family = "BezierCurve"
    /\ cp_1[Len(cp_1)] = cp_2[1]
    /\ cp_2[Len(cp_2)] # cp_1[1]
    /\ TangentIn(cp_1) # TangentOut(cp_2)
    /\ result = Tuple("G", 1)

C30_UniqueNames ==
    /\ [](/\ \A i, j \in 1..Len(geometries) :
                i # j => Name(geometries[i]) # Name(geometries[j])
          /\ \A i \in 1..Len(geometries) :
                geometries[i].instance \in 1..instances[geometries[i].class])
    /\ [][/\ \A c \in DOMAIN instances : instances'[c] >= instances[c]
          /\ Len(geometries') > Len(geometries) =>
                LET made == geometries'[Len(geometries')]
                IN  /\ made.instance > instances[made.class]
                    /\ made.instance = instances'[made.class]]_vars

\* The first Bezier curve was removed and two more were made after it: the
\* window holds the curves 2 and 3, and no curve 1.
C30_Witness ==
    /\ Len(geometries) = 2
    /\ Name(geometries[1]) = <<"BezierCurve", 2>>
    /\ Name(geometries[2]) = <<"BezierCurve", 3>>
    /\ instances["BezierCurve"] = 3

====
